---------------------------- MODULE Spec2Model ----------------------------
(***************************************************************************)
(* Model of package uring (src/unnamed/part_005): the io_uring backed      *)
(* UDPConn and File.  One run of the model constructs one connection       *)
(* (kind says which constructor the program calls) and then lets reader,   *)
(* writer and closer goroutines call its methods while the kernel          *)
(* completes the requests in flight.                                       *)
(*                                                                         *)
(* The C half of the package (io_uring.c: initialize, submit_*_request,    *)
(* wait_completion, peek_completion, initializeReq, freeReq) is not part   *)
(* of the sources at hand; the ring primitives below follow the written    *)
(* description of the Ring component.                                      *)
(***************************************************************************)
EXTENDS Integers, Sequences, FiniteSets, TLC

VARIABLES
    kind,        \* "udp": the program calls NewUDPConn; "file": NewFile
    useIOURing,  \* the *useIOURing flag
    hasIOURing,  \* C.has_io_uring() > 0: the kernel offers io_uring
    ctor,        \* result of the constructor: "pending", "ok" or the error
    ring,        \* the C.go_uring objects, by name
    reqs,        \* the C.goreq request slots of the four pools
    u,           \* the fields of the UDPConn
    f,           \* the fields of the File
    sendReqC,    \* UDPConn.sendReqC: free-list of indices into sendReqs
    writeReqC,   \* File.writeReqC: free-list of indices into writeReqs
    handles,     \* Close calls made on conn and on file; dup: conn.File() ran;
                 \* failed: one of these Close calls returned an error
    pc,          \* position of each goroutine
    loc,         \* locals of each goroutine (idx, n, len(p), ...)
    ret,         \* what the last call of each goroutine returned
    ncalls,      \* number of method calls started so far
    crashed,     \* "no", or how the process died: a Go panic or a fault
    dg,          \* one datagram's way from a WriteTo to a ReadFromNetaddr
    srv,         \* the speedtest server: Serve and its goroutines
    hs,          \* one speedtest connection: RunClient and handleConnection
    pm,          \* the portmapper Client in getUPnPPortMapping
    dec          \* one call of unpackNIdx: its argument and what it returned

\* the variables of package uring's connections
uringVars == <<kind, useIOURing, hasIOURing, ctor, ring, reqs, u, f, sendReqC,
               writeReqC, handles, pc, loc, ret, ncalls, crashed>>

vars == <<uringVars, dg, srv, hs, pm, dec>>

---------------------------------------------------------------------------
(* Program constants. *)

\* len(File.readReqs)
ReadDepth == 1
\* File.Read rejects completions with n < 4
MinHeader == 4
\* syscall.EAGAIN
EAGAIN == 11
\* syscall.EINTR
EINTR == 4
\* an error a request can complete with (EIO)
EIO == 5

(* Bounds of the model. *)

\* len(UDPConn.recvReqs): 8 in the program, scaled down
RecvDepth == 2
\* len(UDPConn.sendReqs): 8 in the program, scaled down
SendDepth == 2
\* len(File.writeReqs): 8 in the program, scaled down
WriteDepth == 2
\* method calls (ReadFromNetaddr, WriteTo, Read, Write, Close) started per run
MaxCalls == 3

\* the goroutines that call the connection's methods
Threads == {"g1", "g2"}

RingNames == {"recvRing", "sendRing", "readRing", "writeRing"}
Pools == {"recvReqs", "sendReqs", "readReqs", "writeReqs"}

Depth(pool) ==
    CASE pool = "recvReqs" -> RecvDepth
      [] pool = "sendReqs" -> SendDepth
      [] pool = "readReqs" -> ReadDepth
      [] pool = "writeReqs" -> WriteDepth

Slots(pool) == 0 .. (Depth(pool) - 1)

\* the address families of the local address of the socket given to NewUDPConn
LocalFamilies == {4}

\* len(p) of the payloads handed to WriteTo and Write
PayloadLens == {3}

\* what the kernel can complete a request of the ring with: a byte count, or
\* a negated error code
Results(r) ==
    CASE r = "recvRing" -> {5, -EAGAIN}
      [] r = "readRing" -> {2, 5, -EAGAIN}
      [] r = "sendRing" -> PayloadLens \cup {-EIO}
      [] r = "writeRing" -> PayloadLens \cup {-EIO}

---------------------------------------------------------------------------
(* Completion values: a uint64, kept as four 16-bit limbs, most           *)
(* significant first.                                                      *)

Limb == 2 ^ 16

\* n in the high 32 bits, idx in the low 32 bits
packNIdx(n, idx) == <<n \div Limb, n % Limb, idx \div Limb, idx % Limb>>

\* the uint64 that holds the negated error code -e
NegErr(e) == <<Limb - 1, Limb - 1, Limb - 1, Limb - e>>

\* int64(nidx) < 0
IsNegative(nidx) == nidx[1] >= Limb \div 2

\* unpackNIdx taking the index from the high half of the value
unpackNIdx_high(nidx) ==
    IF IsNegative(nidx)
    THEN [n |-> 0, idx |-> 0, err |-> TRUE]
    ELSE [n |-> nidx[1] * Limb + nidx[2],
          idx |-> nidx[1] * Limb + nidx[2],
          err |-> FALSE]

\* lines 369-374
unpackNIdx(nidx) ==
    IF IsNegative(nidx)
    THEN [n |-> 0, idx |-> 0, err |-> TRUE]
    ELSE [n |-> nidx[1] * Limb + nidx[2],
          idx |-> nidx[3] * Limb + nidx[4],
          err |-> FALSE]

\* syscall.Errno(-nidx) == e
IsErrno(nidx, e) == nidx = NegErr(e)

\* what a ring primitive called on a ring that was torn down may return, if
\* it returns at all: the memory it reads is no longer the ring's
Garbage == {packNIdx(5, 0), NegErr(EIO)}

---------------------------------------------------------------------------
(* The ring: a submission queue (the requests in flight) and a completion *)
(* queue of entries [res, data], data being the userdata of the request.  *)

NoRing == [st |-> "none", inflight |-> {}, cq |-> <<>>, exits |-> 0]

\* C.initialize succeeded on ring r
InitRing(rg, r) == [rg EXCEPT ![r] = [NoRing EXCEPT !.st = "live"]]

\* C.io_uring_queue_exit(r)
ExitRing(rg, r) ==
    [rg EXCEPT ![r] = [st |-> "exited", inflight |-> {}, cq |-> <<>>,
                       exits |-> @.exits + 1]]

\* a submit_*_request that the kernel accepted, with userdata idx
Submit(rg, r, idx) == [rg EXCEPT ![r].inflight = @ \cup {idx}]

\* the value wait_completion / peek_completion makes of a completion entry
CompletionValue(cqe) ==
    IF cqe.res < 0 THEN NegErr(-cqe.res) ELSE packNIdx(cqe.res, cqe.data)

\* the completion entry is marked seen
Consume(rg, r) == [rg EXCEPT ![r].cq = Tail(@)]

Live(r) == ring[r].st = "live"

\* requests submitted on r whose completion the program has not consumed
Outstanding(r) == Cardinality(ring[r].inflight) + Len(ring[r].cq)

---------------------------------------------------------------------------
(* Request slots. *)

NullReq == [st |-> "null", frees |-> 0]

\* C.initializeReq for every slot of the pool
AllocPool(rq, pool) ==
    [rq EXCEPT ![pool] = [i \in Slots(pool) |-> [st |-> "alloc", frees |-> 0]]]

\* C.freeReq for every slot of the pool
FreePool(rq, pool) ==
    [rq EXCEPT ![pool] = [i \in Slots(pool) |->
                            [st |-> "freed", frees |-> rq[pool][i].frees + 1]]]

\* Indices sending index 0 every time
IndicesAllZero(n) == [i \in 1 .. n |-> 0]

RECURSIVE Indices(_)
\* 0, 1, ..., n-1 in order: what the constructor's loop sends on the free-list
Indices(n) == IF n = 0 THEN <<>> ELSE Append(Indices(n - 1), n - 1)

---------------------------------------------------------------------------
\* the parts of the repository a specification does not run stay idle
DgIdle == [pc |-> "off"]
SrvIdle == [pc |-> "off"]
HsIdle == [pc |-> "off"]
PmIdle == [pc |-> "off"]
DecIdle == [pc |-> "off"]

ZeroUDPConn ==
    [recvRing |-> "nil", sendRing |-> "nil", close |-> "idle", conn |-> "nil",
     file |-> "nil", fd |-> 0, is4 |-> FALSE]

ZeroFile ==
    [writeRing |-> "nil", readRing |-> "nil", close |-> "idle",
     file |-> "nil", fd |-> 0]

NoRet == [op |-> "none", n |-> 0, err |-> "none"]

NoLocals == [idx |-> 0, n |-> 0, len |-> 0, copied |-> FALSE, enq |-> FALSE]

\* the dynamic types of the net.Addr handed to WriteTo
AddrTypes == {"UDPAddr", "other"}

Init ==
    /\ kind \in {"udp", "file"}
    /\ useIOURing \in BOOLEAN
    /\ hasIOURing \in BOOLEAN
    /\ ctor = "pending"
    /\ ring = [r \in RingNames |-> NoRing]
    /\ reqs = [p \in Pools |-> [i \in Slots(p) |-> NullReq]]
    /\ u = ZeroUDPConn
    /\ f = ZeroFile
    /\ sendReqC = <<>>
    /\ writeReqC = <<>>
    /\ handles = [conn |-> 0, file |-> 0, dup |-> FALSE, failed |-> FALSE]
    /\ pc = [t \in Threads |-> "idle"]
    /\ loc = [t \in Threads |-> NoLocals]
    /\ ret = [t \in Threads |-> NoRet]
    /\ ncalls = 0
    /\ crashed = "no"
    /\ dg = DgIdle
    /\ srv = SrvIdle
    /\ hs = HsIdle
    /\ pm = PmIdle
    /\ dec = DecIdle


---------------------------------------------------------------------------
(* Helpers shared by the actions. *)

Running == crashed = "no"

\* a goroutine may start a method call
CanCall(t) == Running /\ ctor = "ok" /\ pc[t] = "idle" /\ ncalls < MaxCalls

\* no goroutine is inside ReadFromNetaddr or Read: the callers of the
\* package read from one goroutine
NoReader == \A o \in Threads : pc[o] \notin {"wait", "copy", "resubmit"}

\* what the program's own steps never change
env == <<kind, useIOURing, hasIOURing, ctor, dg, srv, hs, pm, dec>>

\* the call of method op by t returns (n, err); its locals are gone
Return(t, op, n, err) ==
    /\ pc' = [pc EXCEPT ![t] = "idle"]
    /\ ret' = [ret EXCEPT ![t] = [op |-> op, n |-> n, err |-> err]]
    /\ loc' = [loc EXCEPT ![t] = NoLocals]

\* t starts a call and goes to position p with locals l
Enter(t, p, l) ==
    /\ pc' = [pc EXCEPT ![t] = p]
    /\ ret' = [ret EXCEPT ![t] = NoRet]
    /\ loc' = [loc EXCEPT ![t] = l]

\* the results C.initialize can have
InitOutcomes == IF hasIOURing THEN BOOLEAN ELSE {FALSE}

\* the ring pointer rp is nil or points to a ring that is not live
Dead(rp) == IF rp = "nil" THEN TRUE ELSE ring[rp].st # "live"

\* the values C.wait_completion(rp) can return now (none: the call blocks)
WaitValues(rp) ==
    IF Dead(rp) THEN Garbage
    ELSE IF ring[rp].cq = <<>> THEN {}
    ELSE {CompletionValue(Head(ring[rp].cq))}

\* the values C.peek_completion(rp) can return now
PeekValues(rp) ==
    IF Dead(rp) THEN Garbage \cup {NegErr(EAGAIN)}
    ELSE IF ring[rp].cq = <<>> THEN {NegErr(EAGAIN)}
    ELSE {CompletionValue(Head(ring[rp].cq))}

\* the rings after wait_completion or peek_completion returned
Consumed(rp) ==
    IF Dead(rp) \/ ring[rp].cq = <<>> THEN ring ELSE Consume(ring, rp)

\* the rings after a submit_*_request on rp with userdata idx; ok: accepted
Submitted(rp, idx, ok) ==
    IF Dead(rp) \/ ~ok THEN ring ELSE Submit(ring, rp, idx)

\* the slot pool[idx] may be touched: idx is in range and the slot allocated
Usable(pool, idx) == idx \in Slots(pool) /\ reqs[pool][idx].st = "alloc"

---------------------------------------------------------------------------
(* NewUDPConn *)

\* NewUDPConnUnwind without the io_uring_queue_exit of recvRing
NewUDPConnNoUnwind(rg) == rg

\* lines 90-94: sendRing failed to initialize after recvRing succeeded
NewUDPConnUnwind(rg) == ExitRing(rg, "recvRing")

\* lines 182-211: the body that u.close.Do runs
UDPConnCloseBody(uu) ==
    [uu EXCEPT !.conn = "nil", !.recvRing = "nil", !.sendRing = "nil",
               !.file = "nil", !.fd = 0, !.close = "done"]

NewUDPConn ==
    /\ kind = "udp" /\ ctor = "pending" /\ Running
    /\ UNCHANGED <<kind, useIOURing, hasIOURing, f, writeReqC, pc, loc, ret,
                   ncalls, crashed, dg, srv, hs, pm, dec>>
    /\ IF ~useIOURing
       THEN /\ ctor' = "DisabledError"
            /\ UNCHANGED <<ring, reqs, u, sendReqC, handles>>
       ELSE \E pre \in {"ok", "parse", "file"}, ipVersion \in LocalFamilies,
               recvOK \in InitOutcomes, sendOK \in InitOutcomes,
               failAt \in 0 .. RecvDepth, closeErr \in BOOLEAN :
          CASE pre = "parse" ->
                 \* lines 59-73: the local address does not parse
                 /\ ctor' = "parse"
                 /\ UNCHANGED <<ring, reqs, u, sendReqC, handles>>
            [] pre = "file" ->
                 \* lines 79-82: conn.File() failed
                 /\ ctor' = "file"
                 /\ UNCHANGED <<ring, reqs, u, sendReqC, handles>>
            [] pre = "ok" /\ ~recvOK ->
                 \* lines 87-89
                 /\ ctor' = "initfail"
                 /\ handles' = [handles EXCEPT !.dup = TRUE]
                 /\ UNCHANGED <<ring, reqs, u, sendReqC>>
            [] pre = "ok" /\ recvOK /\ ~sendOK ->
                 \* lines 90-94
                 /\ ctor' = "initfail"
                 /\ ring' = NewUDPConnUnwind(InitRing(ring, "recvRing"))
                 /\ handles' = [handles EXCEPT !.dup = TRUE]
                 /\ UNCHANGED <<reqs, u, sendReqC>>
            [] pre = "ok" /\ recvOK /\ sendOK ->
                 LET rg0 == InitRing(InitRing(ring, "recvRing"), "sendRing")
                     u0 == [recvRing |-> "recvRing", sendRing |-> "sendRing",
                            close |-> "idle", conn |-> "open", file |-> "open",
                            fd |-> 3, is4 |-> (ipVersion = 4)]
                     rq0 == AllocPool(AllocPool(reqs, "recvReqs"), "sendReqs")
                 IN  IF failAt < RecvDepth
                     THEN \* lines 113-118: submitRecvRequest(failAt) failed
                          /\ ctor' = "submitfail"
                          /\ ring' = ExitRing(ExitRing(rg0, "recvRing"), "sendRing")
                          /\ reqs' = FreePool(FreePool(rq0, "recvReqs"), "sendReqs")
                          /\ u' = UDPConnCloseBody(u0)
                          /\ handles' = [conn |-> handles.conn + 1,
                                         file |-> handles.file + 1, dup |-> TRUE,
                                         failed |-> closeErr]
                          /\ UNCHANGED sendReqC
                     ELSE \* lines 113-124
                          /\ ctor' = "ok"
                          /\ ring' = [rg0 EXCEPT !["recvRing"].inflight =
                                                     Slots("recvReqs")]
                          /\ reqs' = rq0
                          /\ u' = u0
                          /\ sendReqC' = Indices(SendDepth)
                          /\ handles' = [handles EXCEPT !.dup = TRUE]

---------------------------------------------------------------------------
(* NewFile *)

\* lines 329-333: a ring failed to initialize; rings made so far are in rg
NewFileUnwind(rg) == rg

\* lines 441-461: the body that u.close.Do runs
FileCloseBody(ff) ==
    [ff EXCEPT !.readRing = "nil", !.writeRing = "nil", !.file = "nil",
               !.fd = 0, !.close = "done"]

NewFile ==
    /\ kind = "file" /\ ctor = "pending" /\ Running
    /\ UNCHANGED <<kind, useIOURing, hasIOURing, u, sendReqC, pc, loc, ret,
                   ncalls, crashed, dg, srv, hs, pm, dec>>
    /\ \E writeOK \in InitOutcomes, readOK \in InitOutcomes, submitOK \in BOOLEAN,
          closeErr \in BOOLEAN :
          CASE ~writeOK ->
                 \* lines 327-333, first ring
                 /\ ctor' = "initfail"
                 /\ ring' = NewFileUnwind(ring)
                 /\ UNCHANGED <<reqs, f, writeReqC, handles>>
            [] writeOK /\ ~readOK ->
                 \* lines 327-333, second ring
                 /\ ctor' = "initfail"
                 /\ ring' = NewFileUnwind(InitRing(ring, "writeRing"))
                 /\ UNCHANGED <<reqs, f, writeReqC, handles>>
            [] writeOK /\ readOK ->
                 LET rg0 == InitRing(InitRing(ring, "writeRing"), "readRing")
                     f0 == [writeRing |-> "writeRing", readRing |-> "readRing",
                            close |-> "idle", file |-> "open", fd |-> 3]
                     rq0 == AllocPool(AllocPool(reqs, "readReqs"), "writeReqs")
                 IN  IF ~submitOK
                     THEN \* lines 346-351: submitReadvRequest(0) failed
                          /\ ctor' = "submitfail"
                          /\ ring' = ExitRing(ExitRing(rg0, "readRing"), "writeRing")
                          /\ reqs' = FreePool(FreePool(rq0, "readReqs"), "writeReqs")
                          /\ f' = FileCloseBody(f0)
                          /\ handles' = [handles EXCEPT !.file = @ + 1,
                                                          !.failed = closeErr]
                          /\ UNCHANGED writeReqC
                     ELSE \* lines 346-357
                          /\ ctor' = "ok"
                          /\ ring' = [rg0 EXCEPT !["readRing"].inflight =
                                                     Slots("readReqs")]
                          /\ reqs' = rq0
                          /\ f' = f0
                          /\ writeReqC' = Indices(WriteDepth)
                          /\ UNCHANGED handles

---------------------------------------------------------------------------
(* What the next step of a goroutine touches. *)

\* the ring pointer the next step of t hands to C, "none" if it hands none
RingUsed(t) ==
    IF pc[t] \in {"wait", "resubmit"}
    THEN (IF kind = "udp" THEN u.recvRing ELSE f.readRing)
    ELSE IF pc[t] \in {"wwait", "submit", "peek"}
    THEN (IF kind = "udp" THEN u.sendRing ELSE f.writeRing)
    ELSE "none"

\* the pool whose slot loc[t].idx the next step of t touches, "none" if none
PoolUsed(t) ==
    IF pc[t] = "copy" THEN (IF kind = "udp" THEN "recvReqs" ELSE "readReqs")
    ELSE IF pc[t] = "fill" THEN (IF kind = "udp" THEN "sendReqs" ELSE "writeReqs")
    ELSE "none"

\* some goroutine is at a wait_completion or a peek_completion of ring r
Awaited(r) ==
    \E t \in Threads : pc[t] \in {"wait", "wwait", "peek"} /\ RingUsed(t) = r

---------------------------------------------------------------------------
(* The kernel completes a request in flight on a live ring.  A completion *)
(* nobody looks for is indistinguishable from one posted later, so the    *)
(* kernel posts one only while a goroutine is at a wait_completion or a   *)
(* peek_completion of the ring.                                           *)

KernelComplete(r) ==
    /\ Running /\ ring[r].st = "live" /\ Awaited(r)
    /\ \E idx \in ring[r].inflight, res \in Results(r) :
          ring' = [ring EXCEPT ![r].inflight = @ \ {idx},
                               ![r].cq = Append(@, [res |-> res, data |-> idx])]
    /\ UNCHANGED <<env, reqs, u, f, sendReqC, writeReqC, handles, pc, loc, ret,
                   ncalls, crashed>>

---------------------------------------------------------------------------
(* sync.Once: the first caller runs the body, callers that arrive while   *)
(* it runs wait for it, later callers return at once.                     *)

\* OnceEnter of a guard that lets every caller run the body
OnceEnterAlways(once) == TRUE

\* close.Do(body) lets the caller run the body
OnceEnter(once) == once = "idle"

\* UDPConn.Close, lines 182-183 and 210
UDPConn_Close(t) ==
    /\ kind = "udp" /\ CanCall(t)
    /\ ncalls' = ncalls + 1
    /\ IF OnceEnter(u.close)
       THEN /\ u' = [u EXCEPT !.close = "running"]
            /\ Enter(t, "close1", NoLocals)
       ELSE IF u.close = "running"
       THEN /\ Enter(t, "oncewait", NoLocals)
            /\ UNCHANGED u
       ELSE /\ Return(t, "Close", 0, "nil")
            /\ UNCHANGED u
    /\ UNCHANGED <<env, ring, reqs, f, sendReqC, writeReqC, handles, crashed>>

\* UDPConn_Close1 giving up the teardown when u.conn.Close() fails
UDPConn_Close1_stops(t) ==
    /\ Running /\ kind = "udp" /\ pc[t] = "close1" /\ u.conn # "nil"
    /\ \E closeErr \in BOOLEAN :
          /\ handles' = [handles EXCEPT !.conn = @ + 1, !.failed = @ \/ closeErr]
          /\ IF closeErr
             THEN /\ u' = [u EXCEPT !.close = "done"]
                  /\ Return(t, "Close", 0, "nil")
                  /\ UNCHANGED ring
             ELSE /\ ring' = ExitRing(ExitRing(ring, u.recvRing), u.sendRing)
                  /\ u' = [u EXCEPT !.conn = "nil"]
                  /\ pc' = [pc EXCEPT ![t] = "close2"]
                  /\ UNCHANGED <<loc, ret>>
    /\ UNCHANGED <<env, reqs, f, sendReqC, writeReqC, ncalls, crashed>>

\* UDPConn_Close1 holding the teardown back while a receive is under way
UDPConn_Close1_waits(t) ==
    /\ Running /\ kind = "udp" /\ pc[t] = "close1"
    /\ NoReader
    /\ IF u.conn = "nil"
       THEN \* u.conn.Close() on a nil *net.UDPConn
            /\ crashed' = "panic: nil pointer dereference"
            /\ UNCHANGED <<handles, ring, u, pc>>
       ELSE \* the error u.conn.Close() returns is dropped
            /\ \E closeErr \in BOOLEAN :
                  handles' = [handles EXCEPT !.conn = @ + 1,
                                             !.failed = @ \/ closeErr]
            /\ ring' = ExitRing(ExitRing(ring, u.recvRing), u.sendRing)
            /\ u' = [u EXCEPT !.conn = "nil"]
            /\ pc' = [pc EXCEPT ![t] = "close2"]
            /\ UNCHANGED crashed
    /\ UNCHANGED <<env, reqs, f, sendReqC, writeReqC, loc, ret, ncalls>>

\* lines 184-196: conn.Close, conn = nil, io_uring_queue_exit of both rings
UDPConn_Close1(t) ==
    /\ Running /\ kind = "udp" /\ pc[t] = "close1"
    /\ IF u.conn = "nil"
       THEN \* u.conn.Close() on a nil *net.UDPConn
            /\ crashed' = "panic: nil pointer dereference"
            /\ UNCHANGED <<handles, ring, u, pc>>
       ELSE \* the error u.conn.Close() returns is dropped
            /\ \E closeErr \in BOOLEAN :
                  handles' = [handles EXCEPT !.conn = @ + 1,
                                             !.failed = @ \/ closeErr]
            /\ ring' = ExitRing(ExitRing(ring, u.recvRing), u.sendRing)
            /\ u' = [u EXCEPT !.conn = "nil"]
            /\ pc' = [pc EXCEPT ![t] = "close2"]
            /\ UNCHANGED crashed
    /\ UNCHANGED <<env, reqs, f, sendReqC, writeReqC, loc, ret, ncalls>>

\* lines 197-201: the ring pointers, file.Close, file and fd are cleared
UDPConn_Close2(t) ==
    /\ Running /\ kind = "udp" /\ pc[t] = "close2"
    /\ \E closeErr \in BOOLEAN :
          \* the error u.file.Close() returns is dropped
          handles' = [handles EXCEPT !.file = @ + 1, !.failed = @ \/ closeErr]
    /\ u' = [u EXCEPT !.recvRing = "nil", !.sendRing = "nil", !.file = "nil",
                      !.fd = 0]
    /\ pc' = [pc EXCEPT ![t] = "close3"]
    /\ UNCHANGED <<env, ring, reqs, f, sendReqC, writeReqC, loc, ret, ncalls,
                   crashed>>

\* lines 203-210: the buffers are freed, Do returns, Close returns nil
UDPConn_Close3(t) ==
    /\ Running /\ kind = "udp" /\ pc[t] = "close3"
    /\ reqs' = FreePool(FreePool(reqs, "recvReqs"), "sendReqs")
    /\ u' = [u EXCEPT !.close = "done"]
    /\ Return(t, "Close", 0, "nil")
    /\ UNCHANGED <<env, ring, f, sendReqC, writeReqC, handles, ncalls, crashed>>

\* File.Close, lines 441-442 and 460
File_Close(t) ==
    /\ kind = "file" /\ CanCall(t)
    /\ ncalls' = ncalls + 1
    /\ IF OnceEnter(f.close)
       THEN /\ f' = [f EXCEPT !.close = "running"]
            /\ Enter(t, "close1", NoLocals)
       ELSE IF f.close = "running"
       THEN /\ Enter(t, "oncewait", NoLocals)
            /\ UNCHANGED f
       ELSE /\ Return(t, "Close", 0, "nil")
            /\ UNCHANGED f
    /\ UNCHANGED <<env, ring, reqs, u, sendReqC, writeReqC, handles, crashed>>

\* lines 443-446: file.Close, io_uring_queue_exit of both rings
File_Close1(t) ==
    /\ Running /\ kind = "file" /\ pc[t] = "close1"
    /\ IF f.readRing = "nil"
       THEN \* io_uring_queue_exit(NULL)
            /\ crashed' = "SIGSEGV in io_uring_queue_exit"
            /\ UNCHANGED <<handles, ring, pc>>
       ELSE \* the error u.file.Close() returns is dropped
            /\ \E closeErr \in BOOLEAN :
                  handles' = [handles EXCEPT !.file = @ + 1,
                                             !.failed = @ \/ closeErr]
            /\ ring' = ExitRing(ExitRing(ring, f.readRing), f.writeRing)
            /\ pc' = [pc EXCEPT ![t] = "close2"]
            /\ UNCHANGED crashed
    /\ UNCHANGED <<env, reqs, u, f, sendReqC, writeReqC, loc, ret, ncalls>>

\* lines 447-450: the ring pointers, file and fd are cleared
File_Close2(t) ==
    /\ Running /\ kind = "file" /\ pc[t] = "close2"
    /\ f' = [f EXCEPT !.readRing = "nil", !.writeRing = "nil", !.file = "nil",
                      !.fd = 0]
    /\ UNCHANGED handles
    /\ pc' = [pc EXCEPT ![t] = "close3"]
    /\ UNCHANGED <<env, ring, reqs, u, sendReqC, writeReqC, loc, ret, ncalls,
                   crashed>>

\* lines 452-460: the buffers are freed, Do returns, Close returns nil
File_Close3(t) ==
    /\ Running /\ kind = "file" /\ pc[t] = "close3"
    /\ reqs' = FreePool(FreePool(reqs, "readReqs"), "writeReqs")
    /\ f' = [f EXCEPT !.close = "done"]
    /\ Return(t, "Close", 0, "nil")
    /\ UNCHANGED <<env, ring, u, sendReqC, writeReqC, handles, ncalls, crashed>>

\* a caller of close.Do that found the body running returns once it is done
OnceWait(t) ==
    /\ Running /\ pc[t] = "oncewait"
    /\ IF kind = "udp" THEN u.close = "done" ELSE f.close = "done"
    /\ Return(t, "Close", 0, "nil")
    /\ UNCHANGED <<env, ring, reqs, u, f, sendReqC, writeReqC, handles, ncalls,
                   crashed>>

Close(t) ==
    \/ UDPConn_Close(t) \/ UDPConn_Close1(t) \/ UDPConn_Close2(t)
    \/ UDPConn_Close3(t)
    \/ File_Close(t) \/ File_Close1(t) \/ File_Close2(t) \/ File_Close3(t)
    \/ OnceWait(t)

---------------------------------------------------------------------------
(* UDPConn.ReadFromNetaddr (ReadFrom wraps it and passes n and err on) *)

\* lines 148-150
UDPConn_ReadFromNetaddr(t) ==
    /\ kind = "udp" /\ CanCall(t) /\ NoReader
    /\ ncalls' = ncalls + 1
    /\ IF u.fd = 0
       THEN Return(t, "ReadFromNetaddr", 0, "invalid")
       ELSE Enter(t, "wait", NoLocals)
    /\ UNCHANGED <<env, ring, reqs, u, f, sendReqC, writeReqC, handles, crashed>>

\* UDPConn_ReadFromNetaddr_wait queueing the new request before the copy
UDPConn_ReadFromNetaddr_wait_resubmits(t) ==
    /\ Running /\ kind = "udp" /\ pc[t] = "wait"
    /\ \E nidx \in WaitValues(u.recvRing) :
          LET un == unpackNIdx(nidx)
          IN  IF un.err
              THEN /\ ring' = Consumed(u.recvRing)
                   /\ Return(t, "ReadFromNetaddr", 0, "completion")
              ELSE /\ ring' = IF Dead(u.recvRing) THEN ring
                              ELSE Submit(Consumed(u.recvRing), u.recvRing, un.idx)
                   /\ pc' = [pc EXCEPT ![t] = "copy"]
                   /\ loc' = [loc EXCEPT ![t].idx = un.idx, ![t].n = un.n]
                   /\ UNCHANGED ret
    /\ UNCHANGED <<env, reqs, u, f, sendReqC, writeReqC, handles, ncalls, crashed>>

\* lines 151-155: wait_completion(u.recvRing), unpackNIdx
UDPConn_ReadFromNetaddr_wait(t) ==
    /\ Running /\ kind = "udp" /\ pc[t] = "wait"
    /\ \E nidx \in WaitValues(u.recvRing) :
          LET un == unpackNIdx(nidx)
          IN  /\ ring' = Consumed(u.recvRing)
              /\ IF un.err
                 THEN Return(t, "ReadFromNetaddr", 0, "completion")
                 ELSE /\ pc' = [pc EXCEPT ![t] = "copy"]
                      /\ loc' = [loc EXCEPT ![t].idx = un.idx, ![t].n = un.n]
                      /\ UNCHANGED ret
    /\ UNCHANGED <<env, reqs, u, f, sendReqC, writeReqC, handles, ncalls, crashed>>

\* lines 156-172: the address is decoded and the data copied out of the slot
UDPConn_ReadFromNetaddr_copy(t) ==
    /\ Running /\ kind = "udp" /\ pc[t] = "copy"
    /\ loc[t].idx \in Slots("recvReqs")
    /\ loc' = [loc EXCEPT ![t].copied = TRUE]
    /\ pc' = [pc EXCEPT ![t] = "resubmit"]
    /\ UNCHANGED <<env, ring, reqs, u, f, sendReqC, writeReqC, handles, ret,
                   ncalls, crashed>>

\* lines 173-179: submitRecvRequest(idx); a rejected submission panics
UDPConn_ReadFromNetaddr_resubmit(t) ==
    /\ Running /\ kind = "udp" /\ pc[t] = "resubmit"
    /\ \E ok \in BOOLEAN :
          /\ ring' = Submitted(u.recvRing, loc[t].idx, ok)
          /\ IF ok
             THEN Return(t, "ReadFromNetaddr", loc[t].n, "nil") /\ UNCHANGED crashed
             ELSE crashed' = "panic: how should we handle this?"
                  /\ UNCHANGED <<pc, ret, loc>>
    /\ UNCHANGED <<env, reqs, u, f, sendReqC, writeReqC, handles, ncalls>>

ReadFromNetaddr(t) ==
    \/ UDPConn_ReadFromNetaddr(t) \/ UDPConn_ReadFromNetaddr_wait(t)
    \/ UDPConn_ReadFromNetaddr_copy(t) \/ UDPConn_ReadFromNetaddr_resubmit(t)

---------------------------------------------------------------------------
(* UDPConn.WriteTo *)

\* UDPConn_WriteTo without the test of u.fd
UDPConn_WriteTo_nofd(t) ==
    /\ kind = "udp" /\ CanCall(t)
    /\ ncalls' = ncalls + 1
    /\ \E plen \in PayloadLens, addr \in AddrTypes :
          IF addr # "UDPAddr"
          THEN Return(t, "WriteTo", 0, "addrtype")
          ELSE Enter(t, "acquire", [NoLocals EXCEPT !.len = plen])
    /\ UNCHANGED <<env, ring, reqs, u, f, sendReqC, writeReqC, handles, crashed>>

\* UDPConn_WriteTo looking at the type of addr after taking a slot
UDPConn_WriteTo_latecheck(t) ==
    /\ kind = "udp" /\ CanCall(t)
    /\ ncalls' = ncalls + 1
    /\ \E plen \in PayloadLens, addr \in AddrTypes :
          IF u.fd = 0
          THEN Return(t, "WriteTo", 0, "invalid") /\ UNCHANGED sendReqC
          ELSE IF addr # "UDPAddr"
          THEN /\ Return(t, "WriteTo", 0, "addrtype")
               /\ sendReqC' = IF sendReqC = <<>> THEN sendReqC ELSE Tail(sendReqC)
          ELSE /\ Enter(t, "acquire", [NoLocals EXCEPT !.len = plen])
               /\ UNCHANGED sendReqC
    /\ UNCHANGED <<env, ring, reqs, u, f, writeReqC, handles, crashed>>

\* lines 233-239
UDPConn_WriteTo(t) ==
    /\ kind = "udp" /\ CanCall(t)
    /\ ncalls' = ncalls + 1
    /\ \E plen \in PayloadLens, addr \in AddrTypes :
          IF u.fd = 0
          THEN Return(t, "WriteTo", 0, "invalid")
          ELSE IF addr # "UDPAddr"
          THEN Return(t, "WriteTo", 0, "addrtype")
          ELSE Enter(t, "acquire", [NoLocals EXCEPT !.len = plen])
    /\ UNCHANGED <<env, ring, reqs, u, f, sendReqC, writeReqC, handles, crashed>>

\* UDPConn_WriteTo_acquire reading the head of sendReqC without taking it
UDPConn_WriteTo_acquire_keep(t) ==
    /\ Running /\ kind = "udp" /\ pc[t] = "acquire"
    /\ IF sendReqC # <<>>
       THEN /\ loc' = [loc EXCEPT ![t].idx = Head(sendReqC)]
            /\ pc' = [pc EXCEPT ![t] = "fill"]
       ELSE /\ pc' = [pc EXCEPT ![t] = "wwait"]
            /\ UNCHANGED loc
    /\ UNCHANGED <<env, ring, reqs, u, f, sendReqC, writeReqC, handles, ret,
                   ncalls, crashed>>

\* lines 242-245: the select on sendReqC
UDPConn_WriteTo_acquire(t) ==
    /\ Running /\ kind = "udp" /\ pc[t] = "acquire"
    /\ IF sendReqC # <<>>
       THEN /\ loc' = [loc EXCEPT ![t].idx = Head(sendReqC)]
            /\ sendReqC' = Tail(sendReqC)
            /\ pc' = [pc EXCEPT ![t] = "fill"]
       ELSE /\ pc' = [pc EXCEPT ![t] = "wwait"]
            /\ UNCHANGED <<loc, sendReqC>>
    /\ UNCHANGED <<env, ring, reqs, u, f, writeReqC, handles, ret, ncalls, crashed>>

\* lines 246-251: wait_completion(u.sendRing), unpackNIdx
UDPConn_WriteTo_wait(t) ==
    /\ Running /\ kind = "udp" /\ pc[t] = "wwait"
    /\ \E nidx \in WaitValues(u.sendRing) :
          LET un == unpackNIdx(nidx)
          IN  /\ ring' = Consumed(u.sendRing)
              /\ IF un.err
                 THEN Return(t, "WriteTo", 0, "completion")
                 ELSE /\ pc' = [pc EXCEPT ![t] = "fill"]
                      /\ loc' = [loc EXCEPT ![t].idx = un.idx]
                      /\ UNCHANGED ret
    /\ UNCHANGED <<env, reqs, u, f, sendReqC, writeReqC, handles, ncalls, crashed>>

\* lines 253-268: the payload is copied in and the address encoded
UDPConn_WriteTo_fill(t) ==
    /\ Running /\ kind = "udp" /\ pc[t] = "fill"
    /\ loc[t].idx \in Slots("sendReqs")
    /\ loc' = [loc EXCEPT ![t].copied = TRUE]
    /\ pc' = [pc EXCEPT ![t] = "submit"]
    /\ UNCHANGED <<env, ring, reqs, u, f, sendReqC, writeReqC, handles, ret,
                   ncalls, crashed>>

\* lines 269-274: submit_sendmsg_request; its result is not looked at
UDPConn_WriteTo_submit(t) ==
    /\ Running /\ kind = "udp" /\ pc[t] = "submit"
    /\ \E ok \in BOOLEAN :
          /\ ring' = Submitted(u.sendRing, loc[t].idx, ok)
          /\ loc' = [loc EXCEPT ![t].enq = ok /\ ~Dead(u.sendRing)]
    /\ pc' = [pc EXCEPT ![t] = "peek"]
    /\ UNCHANGED <<env, reqs, u, f, sendReqC, writeReqC, handles, ret, ncalls,
                   crashed>>

\* UDPConn_WriteTo_peek taking an empty completion queue for a failure
UDPConn_WriteTo_peek_strict(t) ==
    /\ Running /\ kind = "udp" /\ pc[t] = "peek"
    /\ \E nidx \in PeekValues(u.sendRing) :
          LET un == unpackNIdx(nidx)
          IN  /\ ring' = Consumed(u.sendRing)
              /\ IF un.err
                 THEN /\ UNCHANGED sendReqC
                      /\ Return(t, "WriteTo", 0, "completion")
                 ELSE /\ Len(sendReqC) < SendDepth
                      /\ sendReqC' = Append(sendReqC, un.idx)
                      /\ Return(t, "WriteTo", loc[t].len, "nil")
    /\ UNCHANGED <<env, reqs, u, f, writeReqC, handles, ncalls, crashed>>

\* lines 275-287: peek_completion(u.sendRing); a slot index it yields goes
\* back to sendReqC; WriteTo returns len(p), nil
UDPConn_WriteTo_peek(t) ==
    /\ Running /\ kind = "udp" /\ pc[t] = "peek"
    /\ \E nidx \in PeekValues(u.sendRing) :
          LET un == unpackNIdx(nidx)
          IN  /\ ring' = Consumed(u.sendRing)
              /\ IF IsErrno(nidx, EAGAIN) \/ IsErrno(nidx, EINTR) \/ un.err
                 THEN UNCHANGED sendReqC
                 ELSE /\ Len(sendReqC) < SendDepth
                      /\ sendReqC' = Append(sendReqC, un.idx)
    /\ Return(t, "WriteTo", loc[t].len, "nil")
    /\ UNCHANGED <<env, reqs, u, f, writeReqC, handles, ncalls, crashed>>

WriteTo(t) ==
    \/ UDPConn_WriteTo(t) \/ UDPConn_WriteTo_acquire(t) \/ UDPConn_WriteTo_wait(t)
    \/ UDPConn_WriteTo_fill(t) \/ UDPConn_WriteTo_submit(t) \/ UDPConn_WriteTo_peek(t)

---------------------------------------------------------------------------
(* UDPConn.SetDeadline, SetReadDeadline, SetWriteDeadline (lines 293-303) *)

DeadlineMethods == {"SetDeadline", "SetReadDeadline", "SetWriteDeadline"}

\* UDPConn_SetDeadline doing nothing and returning nil
UDPConn_SetDeadline_noop(t) ==
    /\ kind = "udp" /\ CanCall(t)
    /\ ncalls' = ncalls + 1
    /\ \E m \in DeadlineMethods : Return(t, m, 0, "nil")
    /\ UNCHANGED <<env, ring, reqs, u, f, sendReqC, writeReqC, handles, crashed>>

\* each of the three methods is panic("not implemented"); t stays where
\* the panic was raised
UDPConn_SetDeadline(t) ==
    /\ kind = "udp" /\ CanCall(t)
    /\ ncalls' = ncalls + 1
    /\ \E m \in DeadlineMethods : Enter(t, m, NoLocals)
    /\ crashed' = "panic: not implemented"
    /\ UNCHANGED <<env, ring, reqs, u, f, sendReqC, writeReqC, handles>>

---------------------------------------------------------------------------
(* File.Read *)

\* lines 384-386
File_Read(t) ==
    /\ kind = "file" /\ CanCall(t) /\ NoReader
    /\ ncalls' = ncalls + 1
    /\ IF f.fd = 0
       THEN Return(t, "Read", 0, "invalid")
       ELSE Enter(t, "wait", NoLocals)
    /\ UNCHANGED <<env, ring, reqs, u, f, sendReqC, writeReqC, handles, crashed>>

\* lines 387-391: wait_completion(u.readRing), unpackNIdx, the n < 4 check
File_Read_wait(t) ==
    /\ Running /\ kind = "file" /\ pc[t] = "wait"
    /\ \E nidx \in WaitValues(f.readRing) :
          LET un == unpackNIdx(nidx)
          IN  /\ ring' = Consumed(f.readRing)
              /\ IF un.err \/ un.n < MinHeader
                 THEN Return(t, "Read", 0, IF un.err THEN "completion" ELSE "short")
                 ELSE /\ pc' = [pc EXCEPT ![t] = "copy"]
                      /\ loc' = [loc EXCEPT ![t].idx = un.idx, ![t].n = un.n]
                      /\ UNCHANGED ret
    /\ UNCHANGED <<env, reqs, u, f, sendReqC, writeReqC, handles, ncalls, crashed>>

\* lines 392-394: the data is copied out of the slot
File_Read_copy(t) ==
    /\ Running /\ kind = "file" /\ pc[t] = "copy"
    /\ loc[t].idx \in Slots("readReqs")
    /\ loc' = [loc EXCEPT ![t].copied = TRUE]
    /\ pc' = [pc EXCEPT ![t] = "resubmit"]
    /\ UNCHANGED <<env, ring, reqs, u, f, sendReqC, writeReqC, handles, ret,
                   ncalls, crashed>>

\* lines 395-400: submitReadvRequest(idx); a rejected submission panics
File_Read_resubmit(t) ==
    /\ Running /\ kind = "file" /\ pc[t] = "resubmit"
    /\ \E ok \in BOOLEAN :
          /\ ring' = Submitted(f.readRing, loc[t].idx, ok)
          /\ IF ok
             THEN Return(t, "Read", loc[t].n, "nil") /\ UNCHANGED crashed
             ELSE crashed' = "panic: how should we handle this?"
                  /\ UNCHANGED <<pc, ret, loc>>
    /\ UNCHANGED <<env, reqs, u, f, sendReqC, writeReqC, handles, ncalls>>

Read(t) ==
    \/ File_Read(t) \/ File_Read_wait(t)
    \/ File_Read_copy(t) \/ File_Read_resubmit(t)

---------------------------------------------------------------------------
(* File.Write *)

\* lines 404-406
File_Write(t) ==
    /\ kind = "file" /\ CanCall(t)
    /\ ncalls' = ncalls + 1
    /\ \E plen \in PayloadLens :
          IF f.fd = 0
          THEN Return(t, "Write", 0, "invalid")
          ELSE Enter(t, "acquire", [NoLocals EXCEPT !.len = plen])
    /\ UNCHANGED <<env, ring, reqs, u, f, sendReqC, writeReqC, handles, crashed>>

\* File_Write_acquire going to wait_completion whatever writeReqC holds
File_Write_acquire_waits(t) ==
    /\ Running /\ kind = "file" /\ pc[t] = "acquire"
    /\ pc' = [pc EXCEPT ![t] = "wwait"]
    /\ UNCHANGED <<env, ring, reqs, u, f, sendReqC, writeReqC, loc, handles, ret,
                   ncalls, crashed>>

\* lines 409-412: the select on writeReqC
File_Write_acquire(t) ==
    /\ Running /\ kind = "file" /\ pc[t] = "acquire"
    /\ IF writeReqC # <<>>
       THEN /\ loc' = [loc EXCEPT ![t].idx = Head(writeReqC)]
            /\ writeReqC' = Tail(writeReqC)
            /\ pc' = [pc EXCEPT ![t] = "fill"]
       ELSE /\ pc' = [pc EXCEPT ![t] = "wwait"]
            /\ UNCHANGED <<loc, writeReqC>>
    /\ UNCHANGED <<env, ring, reqs, u, f, sendReqC, handles, ret, ncalls, crashed>>

\* lines 413-418: wait_completion(u.writeRing), unpackNIdx
File_Write_wait(t) ==
    /\ Running /\ kind = "file" /\ pc[t] = "wwait"
    /\ \E nidx \in WaitValues(f.writeRing) :
          LET un == unpackNIdx(nidx)
          IN  /\ ring' = Consumed(f.writeRing)
              /\ IF un.err
                 THEN Return(t, "Write", 0, "completion")
                 ELSE /\ pc' = [pc EXCEPT ![t] = "fill"]
                      /\ loc' = [loc EXCEPT ![t].idx = un.idx]
                      /\ UNCHANGED ret
    /\ UNCHANGED <<env, reqs, u, f, sendReqC, writeReqC, handles, ncalls, crashed>>

\* lines 420-423: the payload is copied into the slot
File_Write_fill(t) ==
    /\ Running /\ kind = "file" /\ pc[t] = "fill"
    /\ loc[t].idx \in Slots("writeReqs")
    /\ loc' = [loc EXCEPT ![t].copied = TRUE]
    /\ pc' = [pc EXCEPT ![t] = "submit"]
    /\ UNCHANGED <<env, ring, reqs, u, f, sendReqC, writeReqC, handles, ret,
                   ncalls, crashed>>

\* line 424: submit_writev_request; its result is not looked at
File_Write_submit(t) ==
    /\ Running /\ kind = "file" /\ pc[t] = "submit"
    /\ \E ok \in BOOLEAN :
          /\ ring' = Submitted(f.writeRing, loc[t].idx, ok)
          /\ loc' = [loc EXCEPT ![t].enq = ok /\ ~Dead(f.writeRing)]
    /\ pc' = [pc EXCEPT ![t] = "peek"]
    /\ UNCHANGED <<env, reqs, u, f, sendReqC, writeReqC, handles, ret, ncalls,
                   crashed>>

\* File_Write_peek leaving the completion it has read in the ring
File_Write_peek_keeps(t) ==
    /\ Running /\ kind = "file" /\ pc[t] = "peek"
    /\ \E nidx \in PeekValues(f.writeRing) :
          LET un == unpackNIdx(nidx)
          IN  /\ ring' = ring
              /\ IF IsErrno(nidx, EAGAIN) \/ IsErrno(nidx, EINTR) \/ un.err
                 THEN UNCHANGED writeReqC
                 ELSE /\ Len(writeReqC) < WriteDepth
                      /\ writeReqC' = Append(writeReqC, un.idx)
    /\ Return(t, "Write", loc[t].len, "nil")
    /\ UNCHANGED <<env, reqs, u, f, sendReqC, handles, ncalls, crashed>>

\* lines 425-437: peek_completion(u.writeRing); a slot index it yields goes
\* back to writeReqC; Write returns len(buf), nil
File_Write_peek(t) ==
    /\ Running /\ kind = "file" /\ pc[t] = "peek"
    /\ \E nidx \in PeekValues(f.writeRing) :
          LET un == unpackNIdx(nidx)
          IN  /\ ring' = Consumed(f.writeRing)
              /\ IF IsErrno(nidx, EAGAIN) \/ IsErrno(nidx, EINTR) \/ un.err
                 THEN UNCHANGED writeReqC
                 ELSE /\ Len(writeReqC) < WriteDepth
                      /\ writeReqC' = Append(writeReqC, un.idx)
    /\ Return(t, "Write", loc[t].len, "nil")
    /\ UNCHANGED <<env, reqs, u, f, sendReqC, handles, ncalls, crashed>>

Write(t) ==
    \/ File_Write(t) \/ File_Write_acquire(t) \/ File_Write_wait(t)
    \/ File_Write_fill(t) \/ File_Write_submit(t) \/ File_Write_peek(t)

---------------------------------------------------------------------------
(* A goroutine that is about to use a ring that was torn down, or a slot  *)
(* that was freed, may fault instead of going on with what it finds.      *)

Fault(t) ==
    /\ Running
    /\ IF RingUsed(t) # "none" THEN Dead(RingUsed(t))
       ELSE IF PoolUsed(t) # "none" THEN ~Usable(PoolUsed(t), loc[t].idx)
       ELSE FALSE
    /\ crashed' = "SIGSEGV"
    /\ UNCHANGED <<env, ring, reqs, u, f, sendReqC, writeReqC, handles, pc, loc,
                   ret, ncalls>>

---------------------------------------------------------------------------
Next ==
    \/ NewUDPConn
    \/ NewFile
    \/ \E r \in RingNames : KernelComplete(r)
    \/ \E t \in Threads : ReadFromNetaddr(t)
    \/ \E t \in Threads : WriteTo(t)
    \/ \E t \in Threads : UDPConn_SetDeadline(t)
    \/ \E t \in Threads : Read(t)
    \/ \E t \in Threads : Write(t)
    \/ \E t \in Threads : Close(t)
    \/ \E t \in Threads : Fault(t)

Spec == Init /\ [][Next]_vars

---------------------------------------------------------------------------
(* Vocabulary of the properties. *)

Range(sq) == {sq[i] : i \in 1 .. Len(sq)}

\* t returns from a call of method op in this step
Returns(t, op) ==
    /\ pc'[t] = "idle" /\ ret'[t].op = op
    /\ pc[t] # "idle" \/ ncalls' # ncalls

\* Outstanding, of the rings rg
OutstandingIn(rg, r) == Cardinality(rg[r].inflight) + Len(rg[r].cq)

\* the slots submitted on ring r whose completion the program has not consumed
Pending(rg, r) == rg[r].inflight \cup {rg[r].cq[i].data : i \in 1 .. Len(rg[r].cq)}

\* the ring, pool and free-list of the read side and of the write side
ReadRing == IF kind = "udp" THEN "recvRing" ELSE "readRing"
WriteRing == IF kind = "udp" THEN "sendRing" ELSE "writeRing"
ReadPool == IF kind = "udp" THEN "recvReqs" ELSE "readReqs"
WritePool == IF kind = "udp" THEN "sendReqs" ELSE "writeReqs"

\* positions at which a goroutine owns the slot loc[t].idx: after consuming its
\* completion or taking it from the free-list, before submitting it
ReadHold == {"copy", "resubmit"}
WriteHold == {"fill", "submit"}

\* the slots held by goroutines at the positions hold
Held(p, l, hold) == {l[t].idx : t \in {x \in Threads : p[x] \in hold}}

\* the slots of the read pool, and of the write pool, the program can still use
UsableRead(rg, p, l) == Pending(rg, ReadRing) \cup Held(p, l, ReadHold)
UsableWrite(rg, ch, p, l) ==
    Pending(rg, WriteRing) \cup Range(ch) \cup Held(p, l, WriteHold)

FreeList == IF kind = "udp" THEN sendReqC ELSE writeReqC

\* this step consumes a completion with a negative value from live ring r
ConsumesNegative(r) ==
    /\ ring[r].st = "live" /\ ring'[r].st = "live"
    /\ ring[r].cq # <<>> /\ Head(ring[r].cq).res < 0
    /\ ring'[r].cq = Tail(ring[r].cq)

---------------------------------------------------------------------------
(* C1: whenever a call of ReadFromNetaddr returns, with success or with   *)
(* an error, as many receive requests are outstanding on the recv ring as *)
(* the recv pool has slots.                                                *)
C1_RecvDepthAfterReturn ==
    [][\A t \in Threads :
         (Returns(t, "ReadFromNetaddr") /\ ring'["recvRing"].st = "live") =>
             OutstandingIn(ring', "recvRing") = RecvDepth]_vars

(* C2: whenever File.Read returns, also when it rejects a short or a      *)
(* negative completion, the single read slot is outstanding again on the  *)
(* read ring.                                                              *)
C2_ReadDepthAfterReturn ==
    [][\A t \in Threads :
         (Returns(t, "Read") /\ ring'["readRing"].st = "live") =>
             OutstandingIn(ring', "readRing") = ReadDepth]_vars

(* C3: while the write ring is live, two goroutines never hold the same   *)
(* write slot index between acquiring it (from the free-list or from a    *)
(* completion) and submitting it.                                          *)
C3_ExclusiveAcquisition ==
    \A t1, t2 \in Threads :
        (/\ t1 # t2
         /\ ctor = "ok" /\ ring[WriteRing].st = "live"
         /\ pc[t1] \in WriteHold /\ pc[t2] \in WriteHold)
        => loc[t1].idx # loc[t2].idx

\* two goroutines hold write slots at the same time, the free-list is empty
C3_Witness ==
    /\ ctor = "ok" /\ ring[WriteRing].st = "live"
    /\ \A t \in Threads : pc[t] \in WriteHold
    /\ FreeList = <<>>

(* C4: a step that consumes a completion with a negative value, on the    *)
(* wait path or on the peek path, loses no slot: the slots the program    *)
(* can still use (in flight, completed, in the free-list or held by a     *)
(* goroutine) are as many after the step as before.                        *)
C4_NegativeCompletionKeepsSlots ==
    [][(ConsumesNegative(ReadRing) =>
            Cardinality(UsableRead(ring', pc', loc'))
                >= Cardinality(UsableRead(ring, pc, loc)))
       /\ (ConsumesNegative(WriteRing) =>
            Cardinality(UsableWrite(ring', FreeList', pc', loc'))
                >= Cardinality(UsableWrite(ring, FreeList, pc, loc)))]_vars

(* C5: a slot has one owner at a time: a slot held by a goroutine is not  *)
(* in flight, a slot in the free-list is not in flight, and a goroutine   *)
(* about to submit a slot has done its copy.                               *)
C5_OneOwner ==
    /\ \A t \in Threads :
          pc[t] \in ReadHold => loc[t].idx \notin Pending(ring, ReadRing)
    /\ \A t \in Threads :
          pc[t] \in WriteHold => loc[t].idx \notin Pending(ring, WriteRing)
    /\ Range(FreeList) \cap Pending(ring, WriteRing) = {}
    /\ \A t \in Threads : pc[t] \in {"resubmit", "submit"} => loc[t].copied

\* a reader is about to resubmit the slot it copied from while a writer is
\* about to submit the slot it copied into, with requests in flight on both rings
C5_Witness ==
    /\ ctor = "ok" /\ kind = "udp"
    /\ \E t \in Threads : pc[t] = "resubmit" /\ loc[t].copied
    /\ \E t \in Threads : pc[t] = "submit" /\ loc[t].copied
    /\ ring["recvRing"].inflight # {} /\ ring["sendRing"].inflight # {}

\* conn, file, both rings and every slot of both pools were released once
ReleasedOnce ==
    /\ kind = "udp" => handles.conn = 1
    /\ handles.file = 1
    /\ ring[ReadRing].exits = 1 /\ ring[WriteRing].exits = 1
    /\ \A p \in {ReadPool, WritePool} : \A i \in Slots(p) :
          reqs[p][i].frees = 1 /\ reqs[p][i].st = "freed"

(* C6: Close is one-shot: however many calls of Close are made, at the    *)
(* same time or one after the other, the handle is closed at most once,   *)
(* each ring torn down at most once, each slot freed at most once and no  *)
(* call crashes; once a call has returned, it returned nil and each of    *)
(* these was done exactly once.                                            *)
C6_CloseOnce ==
    /\ handles.conn <= 1 /\ handles.file <= 1
    /\ \A r \in RingNames : ring[r].exits <= 1
    /\ \A p \in Pools : \A i \in Slots(p) : reqs[p][i].frees <= 1
    /\ crashed \notin {"panic: nil pointer dereference",
                       "SIGSEGV in io_uring_queue_exit"}
    /\ \A t \in Threads :
          ret[t].op = "Close" => ret[t].err = "nil" /\ ReleasedOnce

\* both goroutines have called Close and both calls have returned
C6_Witness ==
    /\ ctor = "ok"
    /\ \A t \in Threads : pc[t] = "idle" /\ ret[t].op = "Close"

(* C7: a write that returns success was enqueued (the kernel did not      *)
(* reject its submission), and a rejected resubmission of a read does not *)
(* take the process down: it is an error the caller gets.                  *)
C7_SubmitFailureSurfaced ==
    [][/\ \A t \in Threads :
            (/\ pc[t] = "peek" /\ ring[WriteRing].st = "live"
             /\ pc'[t] = "idle" /\ ret'[t].err = "nil")
            => loc[t].enq
       /\ crashed' # "panic: how should we handle this?"]_vars

(* C8: when NewUDPConn fails because a ring cannot be initialized, no     *)
(* ring is left live and no request buffer is left allocated.              *)
C8_NewUDPConnRollsBack ==
    (kind = "udp" /\ ctor = "initfail") =>
        /\ \A r \in RingNames : ring[r].st # "live"
        /\ \A p \in Pools : \A i \in Slots(p) : reqs[p][i].st # "alloc"

\* NewUDPConn failed at the send ring and the recv ring was torn down
C8_Witness ==
    /\ kind = "udp" /\ ctor = "initfail"
    /\ ring["recvRing"].st = "exited" /\ ring["recvRing"].exits = 1

(* C9: when NewFile fails because the second ring cannot be initialized,  *)
(* the first ring has been torn down.                                      *)
C9_NewFileRollsBack ==
    (kind = "file" /\ ctor = "initfail") =>
        \A r \in RingNames : ring[r].st # "live"

(* C10: a constructor called while io_uring is disabled or unavailable    *)
(* fails with DisabledError and initializes no ring.                       *)
C10_DisabledError ==
    (ctor # "pending" /\ ~(useIOURing /\ hasIOURing)) =>
        /\ ctor = "DisabledError"
        /\ \A r \in RingNames : ring[r].st = "none"

\* the body of close.Do has run to its end: every Close that returned saw this
CloseDone == (IF kind = "udp" THEN u.close ELSE f.close) = "done"

(* C11: a ReadFromNetaddr, WriteTo, Read or Write that starts after Close  *)
(* has returned returns the error of the fd test in the same step: the     *)
(* caller never gets to a wait, peek or submit, and the rings, the slots   *)
(* and the free-lists stay as they were.  (The deadline setters are not    *)
(* among these operations: they panic on an open and a closed connection.) *)
C11_ClosedFailsAtOnce ==
    [][(/\ CloseDone /\ ncalls' = ncalls + 1
        /\ \A t \in Threads : pc'[t] \in DeadlineMethods => pc[t] \in DeadlineMethods) =>
           /\ pc' = pc
           /\ \A t \in Threads :
                 ret'[t] # ret[t] =>
                     \/ ret'[t].op = "Close"
                     \/ ret'[t].err = "invalid" /\ ret'[t].n = 0
           /\ ring' = ring /\ reqs' = reqs
           /\ sendReqC' = sendReqC /\ writeReqC' = writeReqC]_vars

\* one goroutine's Close has returned and the other's later call was refused
C11_Witness ==
    \E t1, t2 \in Threads :
        /\ ret[t1].op = "Close" /\ pc[t1] = "idle"
        /\ ret[t2].op \in {"ReadFromNetaddr", "WriteTo", "Read", "Write"}
        /\ ret[t2].err = "invalid" /\ pc[t2] = "idle"

(* C12: a write blocks only for a slot: the select of WriteTo and of Write *)
(* goes to wait_completion exactly when the free-list is empty and takes   *)
(* the free-list's head otherwise; a write that went to wait_completion    *)
(* on a live ring fills and submits a slot only after it has consumed a    *)
(* completion.                                                             *)
C12_BlocksOnlyForSlot ==
    [][\A t \in Threads :
          /\ (pc[t] = "acquire" /\ pc'[t] # "acquire") =>
                 /\ (pc'[t] = "wwait") <=> (FreeList = <<>>)
                 /\ (pc'[t] = "fill") <=> (FreeList # <<>>)
                 /\ FreeList # <<>> =>
                        loc'[t].idx = Head(FreeList) /\ FreeList' = Tail(FreeList)
          /\ (pc'[t] = "wwait") => pc[t] \in {"acquire", "wwait"}
          /\ (pc[t] = "wwait" /\ pc'[t] = "fill" /\ ring[WriteRing].st = "live") =>
                 /\ ring[WriteRing].cq # <<>>
                 /\ ring'[WriteRing].cq = Tail(ring[WriteRing].cq)
                 /\ loc'[t].idx = Head(ring[WriteRing].cq).data]_vars

\* as many writes as the pool has slots have returned without a completion
\* being consumed (all are still outstanding) and the next write is blocked
C12_Witness ==
    /\ ctor = "ok" /\ ring[WriteRing].st = "live"
    /\ ncalls = (IF kind = "udp" THEN SendDepth ELSE WriteDepth) + 1
    /\ Outstanding(WriteRing) = (IF kind = "udp" THEN SendDepth ELSE WriteDepth)
    /\ FreeList = <<>>
    /\ \E t \in Threads : pc[t] = "wwait"

\* the pool whose slots are submitted on ring r
PoolOf(r) ==
    CASE r = "recvRing" -> "recvReqs"
      [] r = "sendRing" -> "sendReqs"
      [] r = "readRing" -> "readReqs"
      [] r = "writeRing" -> "writeReqs"

\* this step consumes a completion with a non-negative value from live ring r
ConsumesNonNegative(r) ==
    /\ ring[r].st = "live" /\ ring'[r].st = "live"
    /\ ring[r].cq # <<>> /\ Head(ring[r].cq).res >= 0
    /\ ring'[r].cq = Tail(ring[r].cq)

\* this step puts a new request in flight on live ring r
Submits(r) ==
    /\ ctor = "ok" /\ ring[r].st = "live" /\ ring'[r].st = "live"
    /\ ring'[r].inflight # ring[r].inflight
    /\ ring[r].inflight \subseteq ring'[r].inflight

(* C15: on a live ring, a request is put in flight under the index of the  *)
(* slot its caller holds; the index a caller decodes from a non-negative   *)
(* completion is the userdata of that completion, lies within the pool,    *)
(* named a slot in flight on that ring and is what the caller indexes the  *)
(* pool with (or gives back to the free-list); no slot is twice among the  *)
(* requests in flight and the completions waiting, so that a submission is *)
(* consumed at most once.                                                  *)
C15_IndexRoundTrip ==
    [][\A r \in RingNames :
          /\ Submits(r) =>
                \E t \in Threads :
                    /\ pc[t] \in {"resubmit", "submit"} /\ RingUsed(t) = r
                    /\ loc[t].idx \in Slots(PoolOf(r))
                    /\ ring'[r].inflight = ring[r].inflight \cup {loc[t].idx}
          /\ ConsumesNonNegative(r) =>
                LET d == Head(ring[r].cq).data
                IN  /\ d \in Slots(PoolOf(r))
                    /\ d \in Pending(ring, r) /\ d \notin Pending(ring', r)
                    /\ \E t \in Threads :
                          /\ RingUsed(t) = r
                          /\ \/ pc[t] \in {"wait", "wwait"}
                                /\ pc'[t] \in {"copy", "fill"} /\ loc'[t].idx = d
                             \/ pc[t] = "wait" /\ Head(ring[r].cq).res < MinHeader
                                /\ pc'[t] = "idle" /\ ret'[t].err = "short"
                             \/ pc[t] = "peek" /\ FreeList' = Append(FreeList, d)
          /\ ring[r].st = "live" =>
                Cardinality(Pending(ring, r)) = Outstanding(r)]_vars

\* the reader indexes the pool with the index 1 it decoded from a completion
\* while the other request of the ring is still outstanding
C15_Witness ==
    /\ ctor = "ok" /\ kind = "udp" /\ ring["recvRing"].st = "live"
    /\ \E t \in Threads :
          /\ pc[t] = "copy" /\ loc[t].idx = 1 /\ loc[t].n = 5
          /\ loc[t].idx \notin Pending(ring, "recvRing")
    /\ 0 \in Pending(ring, "recvRing")

(* C16: the step in which a constructor succeeds leaves every slot of the  *)
(* read side outstanding on its ring, nothing outstanding on the write     *)
(* ring, and the write free-list holding each index of the pool once.      *)
C16_StateAfterConstruction ==
    [][(ctor = "pending" /\ ctor' = "ok") =>
           LET rd == IF kind = "udp" THEN "recvRing" ELSE "readRing"
               wr == IF kind = "udp" THEN "sendRing" ELSE "writeRing"
               ch == IF kind = "udp" THEN sendReqC' ELSE writeReqC'
           IN  /\ ring'[rd].st = "live" /\ ring'[wr].st = "live"
               /\ ring'[rd].inflight = Slots(PoolOf(rd))
               /\ ring'[rd].cq = <<>>
               /\ Pending(ring', wr) = {}
               /\ Len(ch) = Depth(PoolOf(wr))
               /\ Range(ch) = Slots(PoolOf(wr))
               /\ \A p \in {PoolOf(rd), PoolOf(wr)} : \A i \in Slots(p) :
                     reqs'[p][i].st = "alloc"]_vars

\* a constructor has just succeeded: no method was called yet
C16_Witness ==
    /\ ctor = "ok" /\ ncalls = 0
    /\ Outstanding(ReadRing) = Depth(ReadPool)
    /\ Len(FreeList) = Depth(WritePool)

\* the rings are torn down, every slot is freed, fd and the pointers cleared
TornDown ==
    /\ ring[ReadRing].st = "exited" /\ ring[WriteRing].st = "exited"
    /\ \A p \in {ReadPool, WritePool} : \A i \in Slots(p) : reqs[p][i].st = "freed"
    /\ IF kind = "udp"
       THEN u.fd = 0 /\ u.recvRing = "nil" /\ u.sendRing = "nil" /\ u.file = "nil"
       ELSE f.fd = 0 /\ f.readRing = "nil" /\ f.writeRing = "nil" /\ f.file = "nil"

(* C17: when closing the socket or the file returned an error, Close still *)
(* does the whole teardown: once a Close has returned (or the constructor  *)
(* has closed what it built), the rings are torn down, the buffers freed,  *)
(* the descriptor field zeroed and both handles were closed.               *)
C17_CloseErrorDoesNotStopTeardown ==
    (/\ handles.failed
     /\ \/ ctor = "submitfail"
        \/ \E t \in Threads : ret[t].op = "Close")
    => /\ TornDown
       /\ handles.file = 1
       /\ kind = "udp" => handles.conn = 1

\* Close has returned nil although closing a handle failed
C17_Witness ==
    /\ ctor = "ok" /\ handles.failed
    /\ \E t \in Threads : ret[t].op = "Close" /\ ret[t].err = "nil" /\ pc[t] = "idle"

(* C18: SetDeadline, SetReadDeadline and SetWriteDeadline never return:    *)
(* no call of one of them is ever seen to have returned, a goroutine that  *)
(* is inside one has panicked, and the step that calls one leaves the      *)
(* connection, its rings, slots, free-list and handles as they were.       *)
C18_DeadlinesPanic ==
    [][/\ \A t \in Threads :
            /\ ret'[t].op \notin DeadlineMethods
            /\ pc'[t] \in DeadlineMethods => crashed' = "panic: not implemented"
            /\ (pc'[t] \in DeadlineMethods /\ pc[t] \notin DeadlineMethods)
               => /\ u' = u /\ ring' = ring /\ reqs' = reqs
                  /\ sendReqC' = sendReqC /\ handles' = handles]_vars

\* a goroutine called SetReadDeadline on a connection in use and panicked
C18_Witness ==
    /\ kind = "udp" /\ ctor = "ok" /\ u.fd # 0
    /\ \E t \in Threads : pc[t] = "SetReadDeadline"
    /\ crashed = "panic: not implemented"
    /\ Outstanding("recvRing") + Outstanding("sendRing") > 0

---------------------------------------------------------------------------
\* a goroutine is at the peek of a write and the completion it will read
\* from the live write ring carries a slot index
PutBackDue(t) ==
    /\ ctor = "ok" /\ Running /\ ring[WriteRing].st = "live"
    /\ pc[t] = "peek"
    /\ ring[WriteRing].cq # <<>> /\ Head(ring[WriteRing].cq).res >= 0

(* C23: while the write ring is live the free-list holds no slot index    *)
(* twice, holds only indices of the pool and at most as many as the pool  *)
(* has slots; and whenever a write is about to put a reclaimed index      *)
(* back, the free-list has room for it, so that the send does not block.  *)
C23_FreeListNeverOverfull ==
    (ctor = "ok" /\ ring[WriteRing].st = "live") =>
        /\ \A i, j \in 1 .. Len(FreeList) : FreeList[i] = FreeList[j] => i = j
        /\ Range(FreeList) \subseteq Slots(WritePool)
        /\ Len(FreeList) <= Depth(WritePool)
        /\ \A t \in Threads : PutBackDue(t) =>
              /\ Len(FreeList) < Depth(WritePool)
              /\ Head(ring[WriteRing].cq).data \notin Range(FreeList)

\* a write is about to put back the one index the free-list lacks
C23_Witness ==
    \E t \in Threads :
        /\ PutBackDue(t)
        /\ Len(FreeList) = Depth(WritePool) - 1
        /\ Len(FreeList) > 0

(* C24: every write passes its peek once, between its submission and its  *)
(* return; the peek puts at most one index at the end of the free-list;   *)
(* when the live write ring holds no completion the peek leaves ring and  *)
(* free-list as they are; and after the peek the write returns the        *)
(* length of its buffer and no error.                                      *)
C24_PeekIsHarmless ==
    [][\A t \in Threads :
          /\ (pc'[t] = "peek" /\ pc[t] # "peek") => pc[t] = "submit"
          /\ (pc[t] = "peek" /\ pc'[t] # "peek") =>
                /\ pc'[t] = "idle"
                /\ ret'[t].op \in {"WriteTo", "Write"}
                /\ ret'[t].n = loc[t].len /\ ret'[t].err = "nil"
                /\ \/ FreeList' = FreeList
                   \/ \E idx \in Slots(WritePool) : FreeList' = Append(FreeList, idx)
                /\ (ring[WriteRing].st = "live" /\ ring[WriteRing].cq = <<>>) =>
                      FreeList' = FreeList /\ ring' = ring]_vars

\* a write has returned while its own request was still in flight: its
\* peek found nothing, and the other slots are still in the free-list
C24_Witness ==
    \E t \in Threads :
        /\ ctor = "ok" /\ ring[WriteRing].st = "live"
        /\ pc[t] = "idle" /\ ret[t].op \in {"WriteTo", "Write"}
        /\ ret[t].err = "nil" /\ ret[t].n = 3
        /\ ring[WriteRing].cq = <<>>
        /\ Cardinality(ring[WriteRing].inflight) = 1
        /\ Len(FreeList) = Depth(WritePool) - 1
        /\ \A o \in Threads : pc[o] = "idle"

\* a goroutine is in the body of close.Do, before the rings are torn down
\* (close1) or before the buffers are freed (close2, close3)
ClosePositions == {"close1", "close2", "close3"}

(* C25: Close does not wait for a receive or read that has passed the     *)
(* descriptor check or is blocked in wait_completion: while one is at     *)
(* that point, every step of the body of Close can be taken; and no step  *)
(* of Close moves another goroutine, so the blocked one is not woken.     *)
C25_CloseDoesNotWaitForReaders ==
    \A t, o \in Threads :
        (/\ Running /\ ctor = "ok"
         /\ pc[t] \in ClosePositions /\ pc[o] = "wait"
         /\ pc[t] = "close1" => (IF kind = "udp" THEN u.conn # "nil"
                                 ELSE f.readRing # "nil"))
        => ENABLED (/\ Close(t)
                    /\ pc'[t] # pc[t]
                    /\ pc'[o] = "wait" /\ ret'[o] = ret[o])

\* Close has returned: the read ring is torn down and its buffers freed,
\* and the receive that had passed the descriptor check is still waiting
C25_Witness ==
    \E t, o \in Threads :
        /\ Running /\ ctor = "ok" /\ CloseDone
        /\ pc[t] = "idle" /\ ret[t].op = "Close"
        /\ pc[o] = "wait"
        /\ ring[ReadRing].st # "live"
        /\ \A i \in Slots(ReadPool) : reqs[ReadPool][i].st # "alloc"

(* C28: a call of WriteTo that fails because its destination is not a     *)
(* *net.UDPAddr returns 0 and the error in its first step: the free-list, *)
(* the slots and both rings, with what is in flight on them, are as       *)
(* before the call (the step is the caller's: no other goroutine moves). *)
C28_WrongAddrTypeTouchesNothing ==
    [][\A t \in Threads :
          (/\ ncalls' = ncalls + 1
           /\ pc[t] = "idle" /\ pc'[t] = "idle"
           /\ ret'[t].op = "WriteTo" /\ ret'[t].err = "addrtype"
           /\ \A o \in Threads \ {t} : pc'[o] = pc[o] /\ ret'[o] = ret[o])
          => /\ ret'[t].n = 0
             /\ sendReqC' = sendReqC /\ ring' = ring /\ reqs' = reqs
             /\ u' = u]_vars

\* WriteTo has refused a destination of another type on an open connection
\* with a request in flight and a slot in the free-list
C28_Witness ==
    \E t \in Threads :
        /\ kind = "udp" /\ ctor = "ok" /\ u.fd # 0
        /\ pc[t] = "idle" /\ ret[t].op = "WriteTo" /\ ret[t].err = "addrtype"
        /\ ring["sendRing"].st = "live" /\ ring["sendRing"].inflight # {}
        /\ sendReqC # <<>>

---------------------------------------------------------------------------
(* Writers on an open connection: the constructors, WriteTo / Write and   *)
(* the kernel, which accepts every submission and completes every         *)
(* request in flight; nobody calls Close.  A goroutine inside a call gets *)
(* to take its next step, and every request in flight gets completed.     *)

\* the positions inside a call of WriteTo or Write
WritePositions == {"acquire", "wwait", "fill", "submit", "peek"}

\* the kernel accepts the submission of t's step
Accepted(t) == pc[t] = "submit" => ring' # ring

\* the next step of a call of WriteTo or Write that is under way
WriteStep(t) ==
    /\ pc[t] \in WritePositions
    /\ (WriteTo(t) \/ Write(t))
    /\ Accepted(t)

\* the kernel completes the request of slot idx in flight on ring r
Completes(r, idx) ==
    /\ KernelComplete(r)
    /\ idx \in ring[r].inflight /\ idx \notin ring'[r].inflight

\* a step of WriteTo, and of Write, with such a kernel
WriteTo_accepted(t) == WriteTo(t) /\ Accepted(t)
Write_accepted(t) == Write(t) /\ Accepted(t)

NextWriters ==
    \/ NewUDPConn
    \/ NewFile
    \/ \E r \in RingNames : KernelComplete(r)
    \/ \E t \in Threads : WriteTo_accepted(t)
    \/ \E t \in Threads : Write_accepted(t)

SpecWriters ==
    /\ Init /\ [][NextWriters]_vars
    /\ \A t \in Threads : WF_vars(WriteStep(t))
    /\ \A r \in RingNames :
          \A idx \in UNION {Slots(p) : p \in Pools} : WF_vars(Completes(r, idx))

(* C26: on a connection that is not closed, with a kernel that completes  *)
(* every submitted request, every call of WriteTo or Write that has       *)
(* started returns in the end.                                             *)
C26_WritesReturn ==
    \A t \in Threads : (pc[t] \in WritePositions) ~> (pc[t] = "idle")

\* a writer sits in wait_completion, nothing is in flight or completed on
\* the write ring, nobody else is in a call, and a slot is in the free-list
StuckWriter ==
    \E t \in Threads :
        /\ ctor = "ok" /\ pc[t] = "wwait"
        /\ ring[WriteRing].inflight = {} /\ ring[WriteRing].cq = <<>>
        /\ \A o \in Threads \ {t} : pc[o] = "idle"
        /\ FreeList # <<>>

---------------------------------------------------------------------------
(* unpackNIdx (part_005, lines 369-374) over the whole range of its        *)
(* argument.  A uint32 and a Go int are kept as a pair <<high, low>> that  *)
(* stands for high * 2^16 + low, with 0 <= low < 2^16; a negative int has  *)
(* a negative high part.                                                    *)

\* the sizes an int has in a Go build: 32 bits (386, arm) or 64 bits
IntSizes == {32, 64}

\* the 16-bit limbs tried: both ends, both sides of the sign bit, small values
LimbSamples == {0, 1, 5, Limb \div 2 - 1, Limb \div 2, Limb - 1}

\* int(x) of the uint32 x = <<hi, lo>>: with a 32-bit int the value wraps
\* around at 2^31
IntOfUint32(hi, lo, size) ==
    IF size = 32 /\ hi >= Limb \div 2 THEN <<hi - Limb, lo>> ELSE <<hi, lo>>

\* unpackNIdxInt returning the two halves in each other's place
unpackNIdxInt_swapped(nidx, size) ==
    IF IsNegative(nidx)
    THEN [n |-> <<0, 0>>, idx |-> <<0, 0>>, err |-> TRUE]
    ELSE [n |-> IntOfUint32(nidx[3], nidx[4], size),
          idx |-> IntOfUint32(nidx[1], nidx[2], size),
          err |-> FALSE]

\* lines 369-374: int64(nidx) < 0; int(uint32(nidx >> 32)), int(uint32(nidx))
unpackNIdxInt(nidx, size) ==
    IF IsNegative(nidx)
    THEN [n |-> <<0, 0>>, idx |-> <<0, 0>>, err |-> TRUE]
    ELSE [n |-> IntOfUint32(nidx[1], nidx[2], size),
          idx |-> IntOfUint32(nidx[3], nidx[4], size),
          err |-> FALSE]

InitUnpack ==
    /\ kind = "none" /\ useIOURing = TRUE /\ hasIOURing = TRUE /\ ctor = "pending"
    /\ ring = [r \in RingNames |-> NoRing]
    /\ reqs = [p \in Pools |-> [i \in Slots(p) |-> NullReq]]
    /\ u = ZeroUDPConn /\ f = ZeroFile
    /\ sendReqC = <<>> /\ writeReqC = <<>>
    /\ handles = [conn |-> 0, file |-> 0, dup |-> FALSE, failed |-> FALSE]
    /\ pc = [t \in Threads |-> "idle"]
    /\ loc = [t \in Threads |-> NoLocals]
    /\ ret = [t \in Threads |-> NoRet]
    /\ ncalls = 0 /\ crashed = "no"
    /\ dg = DgIdle /\ srv = SrvIdle /\ hs = HsIdle /\ pm = PmIdle
    /\ \E l1, l2, l3, l4 \in LimbSamples, size \in IntSizes :
          dec = [pc |-> "call", nidx |-> <<l1, l2, l3, l4>>, size |-> size,
                 out |-> [n |-> <<0, 0>>, idx |-> <<0, 0>>, err |-> FALSE]]

Unpack ==
    /\ dec.pc = "call"
    /\ dec' = [dec EXCEPT !.out = unpackNIdxInt(dec.nidx, dec.size),
                          !.pc = "done"]
    /\ UNCHANGED <<uringVars, dg, srv, hs, pm>>

NextUnpack == Unpack

SpecUnpack == InitUnpack /\ [][NextUnpack]_vars

\* the halves of the argument are small enough for the plain integers that
\* the connections' model of unpackNIdx computes with
Small(nidx) == nidx[1] = 0 /\ nidx[3] = 0

(* C27 as stated: a value that is negative as an int64 gives an error     *)
(* with n = 0 and idx = 0; every other value gives n = its high 32 bits   *)
(* and idx = its low 32 bits and no error; so packing n < 2^31 and        *)
(* idx < 2^32 and unpacking gives n and idx back.                          *)
C27_Unpack ==
    dec.pc = "done" =>
        IF IsNegative(dec.nidx)
        THEN dec.out.err /\ dec.out.n = <<0, 0>> /\ dec.out.idx = <<0, 0>>
        ELSE /\ ~dec.out.err
             /\ dec.out.n = <<dec.nidx[1], dec.nidx[2]>>
             /\ dec.out.idx = <<dec.nidx[3], dec.nidx[4]>>

(* C27, amended: as stated, except that idx is the low 32 bits only where *)
(* the int has 64 bits or the low 32 bits are below 2^31; in a build with *)
(* a 32-bit int a low half of 2^31 or more comes back as that number      *)
(* less 2^32.  For small values the result is the one the connections'   *)
(* unpackNIdx computes.                                                     *)
C27_UnpackAmended ==
    dec.pc = "done" =>
        /\ IF IsNegative(dec.nidx)
           THEN dec.out.err /\ dec.out.n = <<0, 0>> /\ dec.out.idx = <<0, 0>>
           ELSE /\ ~dec.out.err
                /\ dec.out.n = <<dec.nidx[1], dec.nidx[2]>>
                /\ IF dec.size = 64 \/ dec.nidx[3] < Limb \div 2
                   THEN dec.out.idx = <<dec.nidx[3], dec.nidx[4]>>
                   ELSE dec.out.idx = <<dec.nidx[3] - Limb, dec.nidx[4]>>
        /\ Small(dec.nidx) =>
              /\ unpackNIdx(dec.nidx).n = dec.out.n[2]
              /\ unpackNIdx(dec.nidx).idx = dec.out.idx[2]
              /\ unpackNIdx(dec.nidx).err = dec.out.err

\* a value with a low half of 2^31 or more has been unpacked by a build
\* with a 32-bit int
C27_Witness ==
    /\ dec.pc = "done" /\ dec.size = 32
    /\ ~IsNegative(dec.nidx) /\ dec.nidx[3] >= Limb \div 2
    /\ dec.out.idx[1] < 0

---------------------------------------------------------------------------
(* One datagram from UDPConn.WriteTo to UDPConn.ReadFromNetaddr: what the  *)
(* two methods do with the payload and with the addresses (part_005,       *)
(* lines 156-172 and 253-274).  A sender connection hands the payload p    *)
(* for the destination dst to WriteTo; the kernel carries what the send    *)
(* slot holds to the socket it is addressed to; a receiver connection of   *)
(* the same family, listening on the loopback address, reads it.  An IP    *)
(* address is the sequence of its bytes, as a net.IP is.                   *)

\* the size of a slot's buffer (bufferSize, device.MaxSegmentSize in the
\* program, scaled down)
BufferSize == 2

PayloadBytes == {65, 66}

\* the sequences of length n over S
SeqsOf(S, n) == [1 .. n -> S]

\* the payloads p handed to WriteTo: 0 < len(p) <= bufferSize, and one byte
\* more than a slot's buffer holds (WriteTo takes a p of any length)
Payloads == UNION {SeqsOf(PayloadBytes, n) : n \in 1 .. BufferSize + 1}

\* how a write past the end of a slot's C buffer ends: the bytes land in the
\* memory behind it, or the process faults
Overruns == {"written", "fault"}

\* n zero bytes
Zeros(n) == [i \in 1 .. n |-> 0]

V4Loopback == <<127, 0, 0, 1>>
\* net.IPv4(a, b, c, d): the 16-byte form of an IPv4 address
V4InV6(ip) == Zeros(10) \o <<255, 255>> \o ip
V6Loopback == Zeros(15) \o <<1>>

\* the address the receiver listens on and the sender's local address
ListenAddr(is4) ==
    [ip |-> IF is4 THEN V4Loopback ELSE V6Loopback, port |-> 4242]
SenderAddr(is4) ==
    [ip |-> IF is4 THEN V4Loopback ELSE V6Loopback, port |-> 5353]

\* the net.IP values tried as udpAddr.IP: an IPv4 address in its 4-byte and
\* in its 16-byte form, an IPv6 address, and no address
DestIPs == {V4Loopback, V4InV6(V4Loopback), V6Loopback, <<>>}

\* ip is an IPv4 address (IP.To4() # nil), in either form
IsV4(ip) ==
    \/ Len(ip) = 4
    \/ Len(ip) = 16 /\ SubSeq(ip, 1, 12) = Zeros(10) \o <<255, 255>>

\* IP.To4()
To4(ip) == IF Len(ip) = 4 THEN ip ELSE SubSeq(ip, 13, 16)

\* Go's copy(dst, src): min(len(dst), len(src)) elements are copied
Copy(dst, src) ==
    [i \in 1 .. Len(dst) |-> IF i <= Len(src) THEN src[i] ELSE dst[i]]

\* binary.BigEndian.Uint32(b): a uint32, kept as its two 16-bit halves
BigEndianUint32(b) == [hi |-> b[1] * 256 + b[2], lo |-> b[3] * 256 + b[4]]

\* binary.BigEndian.PutUint32(arr[:], v)
BigEndianPutUint32(v) == <<v.hi \div 256, v.hi % 256, v.lo \div 256, v.lo % 256>>

\* C.htonl(v): the bytes of the field in memory, in network order
htonl(v) == <<v.hi \div 256, v.hi % 256, v.lo \div 256, v.lo % 256>>

\* C.ntohl of a field holding the bytes m
ntohl(m) == [hi |-> m[1] * 256 + m[2], lo |-> m[3] * 256 + m[4]]

\* C.htons(C.uint16_t(port)) and C.ntohs
htons(port) == <<(port % 65536) \div 256, port % 256>>
ntohs(m) == m[1] * 256 + m[2]

\* what the 12 bytes behind a 4-byte net.IP may hold when 16 bytes are read
\* from its first byte
BeyondIP == {Zeros(12), [i \in 1 .. 12 |-> 255]}

NoDatagram == [dst |-> <<>>, dport |-> 0, src |-> <<>>, sport |-> 0, data |-> <<>>]
\* a slot: its buffer of bufferSize bytes (line 107), what has been written
\* behind the buffer, its socket address, and the length it is submitted with
NoReq ==
    [buf |-> Zeros(BufferSize), over |-> <<>>, addr |-> <<>>,
     port |-> <<0, 0>>, n |-> 0]
NoOut == [n |-> 0, err |-> "none", ip |-> <<>>, port |-> 0, buf |-> <<>>]

InitDatagram ==
    /\ kind = "none" /\ useIOURing = TRUE /\ hasIOURing = TRUE /\ ctor = "pending"
    /\ ring = [r \in RingNames |-> NoRing]
    /\ reqs = [p \in Pools |-> [i \in Slots(p) |-> NullReq]]
    /\ u = ZeroUDPConn /\ f = ZeroFile
    /\ sendReqC = <<>> /\ writeReqC = <<>>
    /\ handles = [conn |-> 0, file |-> 0, dup |-> FALSE, failed |-> FALSE]
    /\ pc = [t \in Threads |-> "idle"]
    /\ loc = [t \in Threads |-> NoLocals]
    /\ ret = [t \in Threads |-> NoRet]
    /\ ncalls = 0 /\ crashed = "no"
    /\ srv = SrvIdle
    /\ hs = HsIdle /\ pm = PmIdle /\ dec = DecIdle
    /\ \E is4 \in BOOLEAN, ip \in DestIPs, p \in Payloads,
          buflen \in 1 .. BufferSize :
          dg = [pc |-> "WriteTo", is4 |-> is4,
                dst |-> [ip |-> ip, port |-> ListenAddr(is4).port],
                p |-> p, buf |-> Zeros(buflen),
                sreq |-> NoReq, wret |-> NoOut, wire |-> NoDatagram,
                rreq |-> NoReq, out |-> NoOut]

\* sliceOf(r.buf, len(p)) followed by copy(rbuf, p) (lines 255-256, 139-144):
\* the slice has len(p) elements whatever the buffer holds, so the bytes of
\* p from bufferSize on are written behind the buffer
SliceOfOverrun(p) ==
    IF Len(p) > BufferSize THEN SubSeq(p, BufferSize + 1, Len(p)) ELSE <<>>

\* lines 253-274 and 287 on an open connection with a free send slot:
\* the payload is copied into the slot, the destination is encoded as the
\* connection's family has it, the slot is submitted, WriteTo returns
\* len(p), nil.  A net.IP too short to index panics.
Dg_WriteTo ==
    /\ dg.pc = "WriteTo"
    /\ LET ip == dg.dst.ip
           filled == [dg.sreq EXCEPT !.buf = Copy(@, dg.p),
                                     !.over = SliceOfOverrun(dg.p),
                                     !.n = Len(dg.p)]
       IN  IF (dg.is4 /\ Len(ip) < 4) \/ (~dg.is4 /\ Len(ip) = 0)
           THEN dg' = [dg EXCEPT !.pc = "panic", !.sreq = filled]
           ELSE \E tail \in BeyondIP,
                   overrun \in IF Len(dg.p) > BufferSize THEN Overruns
                                                          ELSE {"written"} :
                IF overrun = "fault"
                THEN dg' = [dg EXCEPT !.pc = "fault", !.sreq = filled]
                ELSE
                  LET addr == IF dg.is4
                              THEN htonl(BigEndianUint32(ip))
                              ELSE IF Len(ip) >= 16 THEN SubSeq(ip, 1, 16)
                              ELSE ip \o tail
                  IN  dg' = [dg EXCEPT
                               !.pc = "sendmsg",
                               !.sreq = [filled EXCEPT !.addr = addr,
                                           !.port = htons(dg.dst.port)],
                               !.wret = [NoOut EXCEPT !.n = Len(dg.p),
                                                      !.err = "nil"]]
    /\ UNCHANGED <<uringVars, srv, hs, pm, dec>>

\* the kernel sends the request: n bytes of the slot's buffer go to the
\* address in the slot, from the sender's local address
Dg_Sendmsg ==
    /\ dg.pc = "sendmsg"
    /\ dg' = [dg EXCEPT
                !.pc = "recvmsg",
                !.wire = [dst |-> dg.sreq.addr, dport |-> ntohs(dg.sreq.port),
                          src |-> SenderAddr(dg.is4).ip,
                          sport |-> SenderAddr(dg.is4).port,
                          data |-> SubSeq(dg.sreq.buf \o dg.sreq.over, 1, dg.sreq.n)]]
    /\ UNCHANGED <<uringVars, srv, hs, pm, dec>>

\* the kernel completes a recv request of the socket the datagram is
\* addressed to: the listener gets it only if that is its address
Dg_Recvmsg ==
    /\ dg.pc = "recvmsg"
    /\ IF dg.wire.dst = ListenAddr(dg.is4).ip /\ dg.wire.dport = ListenAddr(dg.is4).port
       THEN dg' = [dg EXCEPT
                     !.pc = "ReadFromNetaddr",
                     !.rreq = [buf |-> Copy(NoReq.buf, dg.wire.data),
                               over |-> <<>>,
                               addr |-> dg.wire.src,
                               port |-> htons(dg.wire.sport),
                               n |-> IF Len(dg.wire.data) <= BufferSize
                                     THEN Len(dg.wire.data) ELSE BufferSize]]
       ELSE dg' = [dg EXCEPT !.pc = "elsewhere"]
    /\ UNCHANGED <<uringVars, srv, hs, pm, dec>>

\* lines 156-179: the source address is decoded from the slot, n bytes of
\* the slot are copied to the caller's buffer, n and the address returned
Dg_ReadFromNetaddr ==
    /\ dg.pc = "ReadFromNetaddr"
    /\ dg' = [dg EXCEPT
                !.pc = "done",
                !.out = [n |-> dg.rreq.n, err |-> "nil",
                         ip |-> IF dg.is4
                                THEN BigEndianPutUint32(ntohl(dg.rreq.addr))
                                ELSE dg.rreq.addr,
                         port |-> ntohs(dg.rreq.port),
                         buf |-> Copy(dg.buf, SubSeq(dg.rreq.buf, 1, dg.rreq.n))]]
    /\ UNCHANGED <<uringVars, srv, hs, pm, dec>>

NextDatagram == Dg_WriteTo \/ Dg_Sendmsg \/ Dg_Recvmsg \/ Dg_ReadFromNetaddr

SpecDatagram == InitDatagram /\ [][NextDatagram]_vars

\* the datagram scenario is past WriteTo
DgWritten == dg.pc \notin {"off", "WriteTo"}

\* udpAddr.IP is of the other family than the sender's connection: an IPv6
\* address for an IPv4 connection, a 4-byte IPv4 address for an IPv6 one
DgFamilyMismatch ==
    \/ dg.is4 /\ Len(dg.dst.ip) = 16 /\ ~IsV4(dg.dst.ip)
    \/ ~dg.is4 /\ Len(dg.dst.ip) = 4

(* C13: a WriteTo whose destination is of the other address family than   *)
(* the connection returns an error and submits nothing.                    *)
C13_FamilyMismatchRejected ==
    (DgWritten /\ DgFamilyMismatch) =>
        /\ dg.wret.err \notin {"nil", "none"}
        /\ dg.pc \notin {"sendmsg", "recvmsg", "ReadFromNetaddr", "elsewhere", "done"}
        /\ dg.wire = NoDatagram

\* udpAddr names the address the receiver listens on, in any form a net.IP
\* has for it
DgToListener ==
    /\ dg.dst.port = ListenAddr(dg.is4).port
    /\ IF dg.is4
       THEN IsV4(dg.dst.ip) /\ To4(dg.dst.ip) = ListenAddr(TRUE).ip
       ELSE dg.dst.ip = ListenAddr(FALSE).ip

(* C14: a payload p of at most the segment size, sent with WriteTo to the  *)
(* address a connection listens on, arrives there, and the receive with a  *)
(* buffer of at least len(p) bytes yields n = len(p), the bytes of p and   *)
(* the sender's local address as the source.                               *)
C14_LoopbackRoundTrip ==
    (/\ DgWritten /\ DgToListener
     /\ Len(dg.p) <= BufferSize /\ Len(dg.buf) >= Len(dg.p)) =>
        /\ dg.pc \notin {"panic", "elsewhere"}
        /\ dg.pc = "recvmsg" =>
              /\ dg.wire.dst = ListenAddr(dg.is4).ip
              /\ dg.wire.dport = ListenAddr(dg.is4).port
              /\ dg.wire.data = dg.p
        /\ dg.pc = "done" =>
              /\ dg.out.n = Len(dg.p) /\ dg.out.err = "nil"
              /\ SubSeq(dg.out.buf, 1, dg.out.n) = dg.p
              /\ dg.out.ip = SenderAddr(dg.is4).ip
              /\ dg.out.port = SenderAddr(dg.is4).port

\* the address and port that ReadFromNetaddr's decoding (lines 162-165)
\* reads from an IPv4 socket address
DecodeSockaddr4(req) ==
    [ip |-> BigEndianPutUint32(ntohl(req.addr)), port |-> ntohs(req.port)]

(* C29: on an IPv4 connection, after WriteTo with an IPv4 destination in   *)
(* its 4-byte or its 16-byte form, the socket address of the slot holds    *)
(* the four bytes of that address and its port, and decoding it as         *)
(* ReadFromNetaddr does gives the address and the port back.               *)
C29_EncodesIPv4Destination ==
    (dg.pc = "sendmsg" /\ dg.is4 /\ IsV4(dg.dst.ip)) =>
        /\ dg.sreq.addr = To4(dg.dst.ip)
        /\ dg.sreq.port = htons(dg.dst.port)
        /\ DecodeSockaddr4(dg.sreq) = [ip |-> To4(dg.dst.ip), port |-> dg.dst.port]

\* the number of bytes that the copy of line 172 moves into the caller's
\* buffer
DgCopied == IF dg.rreq.n <= Len(dg.buf) THEN dg.rreq.n ELSE Len(dg.buf)

(* C30: after a receive, the first min(n, len(buf)) bytes of buf are those *)
(* of the completed slot, the bytes of buf beyond them are as they were,   *)
(* and the count returned is the number of bytes copied, hence at most     *)
(* len(buf).                                                               *)
C30_ReceiveCountIsBytesCopied ==
    dg.pc = "done" =>
        /\ Len(dg.out.buf) = Len(dg.buf)
        /\ \A i \in 1 .. Len(dg.buf) :
              dg.out.buf[i] = IF i <= DgCopied THEN dg.rreq.buf[i] ELSE dg.buf[i]
        /\ dg.out.n = DgCopied
        /\ dg.out.n <= Len(dg.buf)

(* C31: whatever the length of p, WriteTo writes at most bufferSize bytes  *)
(* into the slot (nothing behind its buffer) and submits the slot with a   *)
(* length of at most bufferSize.                                           *)
C31_WriteStaysInsideSlot ==
    DgWritten =>
        /\ dg.pc # "fault"
        /\ dg.sreq.over = <<>>
        /\ Len(dg.sreq.buf) = BufferSize
        /\ dg.sreq.n <= BufferSize

---------------------------------------------------------------------------
(* The speedtest server (part_004, lines 179-260): Serve with its accept   *)
(* goroutine and one handleConnection goroutine per connection it takes    *)
(* from connChan.  srv holds Serve's locals, the two channels and where    *)
(* every goroutine stands; clients connect one after the other.            *)

\* connections that clients open during one run
MaxConns == 3
\* the largest maxConnections tried
MaxMaxConnections == 2

Conns == 1 .. MaxConns

\* how handleConnection ends: the config does not decode (line 239), its
\* version differs (244), runTestS fails on a write (255), or the test is
\* run to its end (259)
Outcomes == {"decode", "version mismatch", "connection closed unexpectedly", "ok"}

\* the testState handleConnection sends for an outcome
TestStateOf(o) ==
    IF o = "ok" THEN [failed |-> FALSE, err |-> "nil"]
    ELSE [failed |-> TRUE, err |-> o]

InitServe ==
    /\ kind = "none" /\ useIOURing = TRUE /\ hasIOURing = TRUE /\ ctor = "pending"
    /\ ring = [r \in RingNames |-> NoRing]
    /\ reqs = [p \in Pools |-> [i \in Slots(p) |-> NullReq]]
    /\ u = ZeroUDPConn /\ f = ZeroFile
    /\ sendReqC = <<>> /\ writeReqC = <<>>
    /\ handles = [conn |-> 0, file |-> 0, dup |-> FALSE, failed |-> FALSE]
    /\ pc = [t \in Threads |-> "idle"]
    /\ loc = [t \in Threads |-> NoLocals]
    /\ ret = [t \in Threads |-> NoRet]
    /\ ncalls = 0 /\ crashed = "no"
    /\ dg = DgIdle
    /\ hs = HsIdle /\ pm = PmIdle /\ dec = DecIdle
    /\ \E max \in 1 .. MaxMaxConnections, kill \in {"nil", "open"},
          results \in {"nil", "chan"} :
          srv = [pc |-> "select", ret |-> "none",
                 maxConnections |-> max,
                 numConnections |-> 0,
                 written |-> {0},
                 connChan |-> <<>>,
                 testStateChan |-> <<>>,
                 acc |-> [pc |-> "Accept", conn |-> 0],
                 conns |-> [c \in Conns |-> "new"],
                 outcome |-> [c \in Conns |-> "none"],
                 killSignal |-> kill,
                 resultsChan |-> results,
                 listener |-> "open"]

\* line 190: l.Accept() returns the next connection, or an error once the
\* listener is closed
Accept ==
    /\ srv.acc.pc = "Accept"
    /\ IF srv.listener = "closed"
       THEN srv' = [srv EXCEPT !.acc.pc = "exited"]
       ELSE \E c \in Conns :
              /\ srv.conns[c] = "new"
              /\ \A d \in Conns : d < c => srv.conns[d] # "new"
              /\ srv' = [srv EXCEPT !.acc = [pc |-> "check", conn |-> c],
                                    !.conns[c] = "accepted"]
    /\ UNCHANGED <<uringVars, dg, hs, pm, dec>>

\* lines 195-198: numConnections is read while Serve writes it with no
\* synchronisation: the goroutine sees the present value or an earlier one
Accept_check ==
    /\ srv.acc.pc = "check"
    /\ \E seen \in srv.written :
          IF seen >= srv.maxConnections
          THEN srv' = [srv EXCEPT !.conns[srv.acc.conn] = "closed",
                                  !.acc = [pc |-> "Accept", conn |-> 0]]
          ELSE srv' = [srv EXCEPT !.acc.pc = "send"]
    /\ UNCHANGED <<uringVars, dg, hs, pm, dec>>

\* line 199: connChan <- conn, blocking while the channel is full
Accept_send ==
    /\ srv.acc.pc = "send"
    /\ Len(srv.connChan) < srv.maxConnections
    /\ srv' = [srv EXCEPT !.connChan = Append(@, srv.acc.conn),
                          !.conns[srv.acc.conn] = "queued",
                          !.acc = [pc |-> "Accept", conn |-> 0]]
    /\ UNCHANGED <<uringVars, dg, hs, pm, dec>>

\* a goroutine of the caller sends on killSignal
KillSignal_send ==
    /\ srv.killSignal = "open"
    /\ srv' = [srv EXCEPT !.killSignal = "sending"]
    /\ UNCHANGED <<uringVars, dg, hs, pm, dec>>

\* lines 205-206 with the deferred l.Close() of line 180
Serve_killSignal ==
    /\ srv.pc = "select" /\ srv.killSignal = "sending"
    /\ srv' = [srv EXCEPT !.killSignal = "received", !.pc = "returned",
                          !.ret = "nil", !.listener = "closed"]
    /\ UNCHANGED <<uringVars, dg, hs, pm, dec>>

\* lines 207-209: a connection is taken from connChan and its handler started
Serve_connChan ==
    /\ srv.pc = "select" /\ srv.connChan # <<>>
    /\ srv' = [srv EXCEPT !.connChan = Tail(@),
                          !.conns[Head(srv.connChan)] = "handling",
                          !.pc = "inc"]
    /\ UNCHANGED <<uringVars, dg, hs, pm, dec>>

\* line 210: numConnections++
Serve_inc ==
    /\ srv.pc = "inc"
    /\ srv' = [srv EXCEPT !.numConnections = @ + 1,
                          !.written = @ \cup {srv.numConnections + 1},
                          !.pc = "select"]
    /\ UNCHANGED <<uringVars, dg, hs, pm, dec>>

\* Serve_testStateChan returning state.err for every state it receives
Serve_testStateChan_any ==
    /\ srv.pc = "select" /\ srv.testStateChan # <<>>
    /\ srv' = [srv EXCEPT !.testStateChan = Tail(@), !.pc = "returned",
                          !.ret = Head(srv.testStateChan).err,
                          !.listener = "closed"]
    /\ UNCHANGED <<uringVars, dg, hs, pm, dec>>

\* lines 211-220: a failed state makes Serve return its error; after a
\* successful one the results are passed on if there is a resultsChan,
\* and numConnections--
Serve_testStateChan ==
    /\ srv.pc = "select" /\ srv.testStateChan # <<>>
    /\ LET state == Head(srv.testStateChan)
       IN  IF state.failed
           THEN srv' = [srv EXCEPT !.testStateChan = Tail(@), !.pc = "returned",
                                   !.ret = state.err, !.listener = "closed"]
           ELSE IF srv.resultsChan # "nil"
           THEN srv' = [srv EXCEPT !.testStateChan = Tail(@), !.pc = "results"]
           ELSE srv' = [srv EXCEPT !.testStateChan = Tail(@),
                                   !.numConnections = @ - 1,
                                   !.written = @ \cup {srv.numConnections - 1}]
    /\ UNCHANGED <<uringVars, dg, hs, pm, dec>>

\* lines 217 and 220: resultsChan <- state.results goes through when its
\* reader takes the value; numConnections--
Serve_resultsChan ==
    /\ srv.pc = "results"
    /\ srv' = [srv EXCEPT !.numConnections = @ - 1,
                          !.written = @ \cup {srv.numConnections - 1},
                          !.pc = "select"]
    /\ UNCHANGED <<uringVars, dg, hs, pm, dec>>

\* lines 230-258: handleConnection up to its send on testStateChan
handleConnection(c) ==
    /\ srv.conns[c] = "handling"
    /\ \E o \in Outcomes :
          srv' = [srv EXCEPT !.conns[c] = "reporting", !.outcome[c] = o]
    /\ UNCHANGED <<uringVars, dg, hs, pm, dec>>

\* lines 241, 247, 256, 259: testStateChan <- testState{...}, blocking while
\* the channel is full; the deferred conn.Close() of line 231
handleConnection_report(c) ==
    /\ srv.conns[c] = "reporting"
    /\ Len(srv.testStateChan) < srv.maxConnections
    /\ srv' = [srv EXCEPT !.testStateChan = Append(@, TestStateOf(srv.outcome[c])),
                          !.conns[c] = "done"]
    /\ UNCHANGED <<uringVars, dg, hs, pm, dec>>

NextServe ==
    \/ Accept \/ Accept_check \/ Accept_send
    \/ KillSignal_send
    \/ Serve_killSignal \/ Serve_connChan \/ Serve_inc
    \/ Serve_testStateChan \/ Serve_resultsChan
    \/ \E c \in Conns : handleConnection(c)
    \/ \E c \in Conns : handleConnection_report(c)

SpecServe == InitServe /\ [][NextServe]_vars

\* the connections whose handleConnection goroutine is running
Handling == {c \in Conns : srv.conns[c] \in {"handling", "reporting"}}

(* C19: at any time at most maxConnections handleConnection goroutines    *)
(* are running.                                                            *)
C19_AtMostMaxConnections ==
    srv.pc # "off" => Cardinality(Handling) <= srv.maxConnections

(* C20: Serve returns nil only in a step that receives a value from        *)
(* killSignal; it returns an error, which is then not nil, only in a step  *)
(* that receives a failed state a handler has sent after a failed test;    *)
(* a step that receives the state of a successful test does not return.    *)
C20_ServeReturns ==
    [][(srv.pc # "off" /\ srv'.pc = "returned" /\ srv.pc # "returned") =>
          /\ srv'.ret = "nil" =>
                srv.killSignal = "sending" /\ srv'.killSignal = "received"
          /\ srv'.ret # "nil" =>
                /\ srv.testStateChan # <<>>
                /\ srv'.testStateChan = Tail(srv.testStateChan)
                /\ Head(srv.testStateChan).failed
                /\ srv'.ret = Head(srv.testStateChan).err
                /\ \E c \in Conns :
                      /\ srv.conns[c] = "done" /\ srv.outcome[c] # "ok"
                      /\ srv'.ret = srv.outcome[c]
          /\ (srv.testStateChan # <<>> /\ ~Head(srv.testStateChan).failed) =>
                srv'.testStateChan = srv.testStateChan]_vars

\* Serve has taken the state of a successful test and gone on, and has
\* returned nil later, on the kill signal
C20_Witness ==
    /\ srv.pc = "returned" /\ srv.ret = "nil" /\ srv.killSignal = "received"
    /\ \E c \in Conns : srv.conns[c] = "done" /\ srv.outcome[c] = "ok"
    /\ srv.testStateChan = <<>>
    /\ \A c \in Conns : srv.outcome[c] \in {"ok", "none"}

\* Serve and its goroutines with a fair scheduler: every goroutine that can
\* take a step takes one, a ready case of the select is taken, and the
\* reader of resultsChan takes every value.  Only the kill signal is left
\* to its sender
SpecServeFair ==
    /\ InitServe /\ [][NextServe]_vars
    /\ WF_vars(Accept) /\ WF_vars(Accept_check) /\ WF_vars(Accept_send)
    /\ SF_vars(Serve_killSignal) /\ SF_vars(Serve_connChan)
    /\ SF_vars(Serve_testStateChan)
    /\ WF_vars(Serve_inc) /\ WF_vars(Serve_resultsChan)
    /\ \A c \in Conns : WF_vars(handleConnection(c))
    /\ \A c \in Conns : WF_vars(handleConnection_report(c))

(* C34: every handleConnection goroutine that is started comes to its end: *)
(* its send on testStateChan goes through, in every interleaving, also     *)
(* when Serve has returned.                                                *)
C34_HandlersTerminate ==
    \A c \in Conns : (srv.conns[c] = "handling") ~> (srv.conns[c] = "done")

\* Serve has returned and a handler stands at its send with testStateChan
\* full: nothing will ever take a value from the channel
StuckHandler ==
    /\ srv.pc = "returned"
    /\ Len(srv.testStateChan) = srv.maxConnections
    /\ \E c \in Conns : srv.conns[c] = "reporting"

---------------------------------------------------------------------------
(* One speedtest connection (speedtest_client.go, lines 20-110; part_004,  *)
(* lines 230-315): RunClient on one end, handleConnection on the other.    *)
(* The connection is two streams of messages, c2s and s2c; a JSON value    *)
(* is the set of its <<key, value>> members, test data comes in blocks.    *)

\* speedtest.go, line 18
version == 1

\* the value of the version constant in the client's build
ClientVersions == {1, 2}

\* blocks that are written without the clock advancing by a tick
MaxBlocks == 2

\* Time is counted in ticks of half an increment.  increment
\* (speedtest.go, line 19) is two ticks; minInterval (line 20) is less than
\* a tick, so an interval is longer than minInterval when it is a tick or more
Increment == 2

\* config.TestDuration as the client sets it: one increment, and one and a
\* half (the server takes the value as it comes)
Durations == {2, 3}

\* the ticks a conn.Write or an io.ReadFull may take
MaxWriteTicks == 2

\* getResult (speedtest.go, lines 110-120) appended to results when it is
\* not nil: an interval shorter than 0.01 s gives no result
AppendResult(results, sum, interval, total) ==
    IF interval < 1 THEN results
    ELSE Append(results, [Bytes |-> sum, Total |-> total])

\* what travels on a connection: a JSON value or a block of test data
JSON(members) == [json |-> TRUE, members |-> members]
Block == [json |-> FALSE, members |-> {}]

\* json.Encoder.Encode of a TestConfig (speedtest.go, lines 26-29)
EncodeConfig(config) ==
    JSON({<<"version", config.Version>>, <<"time", config.TestDuration>>})

JSONInt(j, key) ==
    IF \E m \in j.members : m[1] = key
    THEN (CHOOSE m \in j.members : m[1] = key)[2]
    ELSE 0

JSONString(j, key) ==
    IF \E m \in j.members : m[1] = key
    THEN (CHOOSE m \in j.members : m[1] = key)[2]
    ELSE ""

\* json.Decoder.Decode into a TestConfig: a missing member leaves the zero value
DecodeConfig(j) ==
    [Version |-> JSONInt(j, "version"), TestDuration |-> JSONInt(j, "time")]

\* json.Encoder.Encode of a TestConfigResponse: `json:"error,omitempty"`
\* (speedtest.go, lines 33-35)
EncodeResponse(response) ==
    JSON(IF response.Error = "" THEN {} ELSE {<<"error", response.Error>>})

DecodeResponse(j) == [Error |-> JSONString(j, "error")]

IsBlock(m) == ~m.json

\* line 244 with the constant that is always true
VersionMismatch_never(config) == FALSE

\* part_004, line 244
VersionMismatch(config) == config.Version # version

NoTestState == [sent |-> FALSE, failed |-> FALSE, err |-> "nil", results |-> <<>>]
NoResponse == [sent |-> FALSE, Error |-> ""]

InitHandshake ==
    /\ kind = "none" /\ useIOURing = TRUE /\ hasIOURing = TRUE /\ ctor = "pending"
    /\ ring = [r \in RingNames |-> NoRing]
    /\ reqs = [p \in Pools |-> [i \in Slots(p) |-> NullReq]]
    /\ u = ZeroUDPConn /\ f = ZeroFile
    /\ sendReqC = <<>> /\ writeReqC = <<>>
    /\ handles = [conn |-> 0, file |-> 0, dup |-> FALSE, failed |-> FALSE]
    /\ pc = [t \in Threads |-> "idle"]
    /\ loc = [t \in Threads |-> NoLocals]
    /\ ret = [t \in Threads |-> NoRet]
    /\ ncalls = 0 /\ crashed = "no"
    /\ dg = DgIdle /\ srv = SrvIdle /\ pm = PmIdle /\ dec = DecIdle
    /\ \E cver \in ClientVersions, duration \in Durations :
          hs = [pc |-> "on",
                cver |-> cver,
                duration |-> duration,
                t |-> 0, lastCalculated |-> 0, sum |-> 0, totalSum |-> 0,
                results |-> <<>>,
                ct |-> 0, clastCalculated |-> 0, csum |-> 0, ctotalSum |-> 0,
                cresults |-> <<>>, cbegun |-> FALSE,
                cpc |-> "Dial",
                cres |-> [results |-> <<>>, err |-> "nil"],
                got |-> 0,
                spc |-> "idle",
                config |-> [Version |-> 0, TestDuration |-> 0],
                response |-> NoResponse,
                blocks |-> 0,
                state |-> NoTestState,
                pending |-> NoTestState,
                c2s |-> <<>>, s2c |-> <<>>,
                cclosed |-> FALSE, sclosed |-> FALSE,
                broken |-> FALSE]

\* RunClient returns (results, err); the deferred conn.Close() of line 29
ClientReturns(h, results, err) ==
    [h EXCEPT !.cpc = "returned", !.cres = [results |-> results, err |-> err],
              !.cclosed = TRUE]

\* lines 21-24: net.Dial fails, or the server takes the connection and
\* either starts handleConnection for it or closes it unhandled
\* (part_004, lines 195-198)
RunClient_Dial ==
    /\ hs.cpc = "Dial"
    /\ \/ hs' = [hs EXCEPT !.cpc = "returned",
                           !.cres = [results |-> <<>>, err |-> "dial"]]
       \/ hs' = [hs EXCEPT !.cpc = "Encode", !.spc = "Decode"]
       \/ hs' = [hs EXCEPT !.cpc = "Encode", !.spc = "done", !.sclosed = TRUE]
    /\ UNCHANGED <<uringVars, dg, srv, pm, dec>>

\* lines 26-34
RunClient_Encode ==
    /\ hs.cpc = "Encode"
    /\ IF hs.broken
       THEN hs' = ClientReturns(hs, <<>>, "write")
       ELSE hs' = [hs EXCEPT
                !.c2s = Append(@, EncodeConfig([Version |-> hs.cver,
                                                TestDuration |-> hs.duration])),
                !.cpc = "Decode"]
    /\ UNCHANGED <<uringVars, dg, srv, pm, dec>>

\* lines 35-42: the decoder reads the response from the connection, and
\* with it whatever else has arrived, which stays in the decoder's buffer
RunClient_Decode ==
    /\ hs.cpc = "Decode"
    /\ \/ /\ hs.s2c # <<>>
          /\ IF IsBlock(Head(hs.s2c))
             THEN hs' = ClientReturns([hs EXCEPT !.s2c = Tail(@)], <<>>,
                                      "invalid character")
             ELSE LET response == DecodeResponse(Head(hs.s2c))
                  IN  \E k \in 0 .. Len(hs.s2c) - 1 :
                        IF response.Error # ""
                        THEN hs' = ClientReturns(
                                      [hs EXCEPT !.s2c = SubSeq(@, k + 2, Len(@))],
                                      <<>>, response.Error)
                        ELSE hs' = [hs EXCEPT !.s2c = SubSeq(@, k + 2, Len(@)),
                                              !.cpc = "runTestC"]
       \/ /\ hs.s2c = <<>> /\ hs.sclosed
          /\ hs' = ClientReturns(hs, <<>>, "EOF")
       \/ /\ hs.broken
          /\ hs' = ClientReturns(hs, <<>>, "read")
    /\ UNCHANGED <<uringVars, dg, srv, pm, dec>>

\* the end of runTestC (lines 91-108) with the loop's last time and sum:
\* the last segment, then the total
runTestC_results(h, t, sum) ==
    AppendResult(AppendResult(h.cresults, sum, t - h.clastCalculated, FALSE),
                 h.ctotalSum + sum, t, TRUE)

\* runTestC returning the error for io.EOF and io.ErrUnexpectedEOF as for
\* every other one
runTestC_eoferr ==
    /\ hs.cpc = "runTestC"
    /\ \E dt \in 0 .. MaxWriteTicks :
         LET t == IF hs.cbegun THEN hs.ct + dt ELSE 0
         IN  \/ /\ hs.s2c # <<>>
                /\ LET sum == hs.csum + 1
                       h == [hs EXCEPT !.s2c = Tail(@), !.got = @ + 1,
                                       !.cbegun = TRUE, !.ct = t]
                   IN  IF t > hs.clastCalculated + Increment
                       THEN hs' = [h EXCEPT
                                     !.cresults = AppendResult(@, sum,
                                                     t - hs.clastCalculated, FALSE),
                                     !.clastCalculated = t,
                                     !.ctotalSum = @ + sum,
                                     !.csum = 0]
                       ELSE hs' = [h EXCEPT !.csum = sum]
             \/ /\ hs.s2c = <<>> /\ hs.sclosed
                /\ hs' = ClientReturns(hs, <<>>, "unexpected error has occured")
             \/ /\ hs.broken
                /\ hs' = ClientReturns(hs, <<>>, "unexpected error has occured")
    /\ UNCHANGED <<uringVars, dg, srv, pm, dec>>

\* lines 49-110: one round of the loop, or its end.  A block is read in dt
\* ticks (downloadBegin is the time after the first read) and counted, and
\* a segment is closed when more than an increment has passed; io.EOF and
\* io.ErrUnexpectedEOF end the test, every other error is returned
runTestC ==
    /\ hs.cpc = "runTestC"
    /\ \E dt \in 0 .. MaxWriteTicks :
         LET t == IF hs.cbegun THEN hs.ct + dt ELSE 0
         IN  \/ /\ hs.s2c # <<>>
                /\ LET sum == hs.csum + 1
                       h == [hs EXCEPT !.s2c = Tail(@), !.got = @ + 1,
                                       !.cbegun = TRUE, !.ct = t]
                   IN  IF t > hs.clastCalculated + Increment
                       THEN hs' = [h EXCEPT
                                     !.cresults = AppendResult(@, sum,
                                                     t - hs.clastCalculated, FALSE),
                                     !.clastCalculated = t,
                                     !.ctotalSum = @ + sum,
                                     !.csum = 0]
                       ELSE hs' = [h EXCEPT !.csum = sum]
             \/ /\ hs.s2c = <<>> /\ hs.sclosed
                /\ hs' = ClientReturns([hs EXCEPT !.ct = t, !.cbegun = TRUE],
                                       runTestC_results(hs, t, hs.csum), "nil")
             \/ /\ hs.broken
                /\ hs' = ClientReturns(hs, <<>>, "unexpected error has occured")
    /\ UNCHANGED <<uringVars, dg, srv, pm, dec>>

\* encoder.Encode(response) with its error dropped: on a broken connection
\* nothing is written
Respond(h, error) ==
    [h EXCEPT !.response = [sent |-> TRUE, Error |-> error],
              !.s2c = IF h.broken THEN @
                      ELSE Append(@, EncodeResponse([Error |-> error]))]

FailedState(err) ==
    [sent |-> FALSE, failed |-> TRUE, err |-> err, results |-> <<>>]

\* handleConnection starting the test without the response of line 251
handleConnection_handshake_noreply ==
    /\ hs.spc = "Decode"
    /\ \/ /\ hs.c2s # <<>>
          /\ LET config == DecodeConfig(Head(hs.c2s))
                 h == [hs EXCEPT !.c2s = Tail(@), !.config = config]
             IN  IF VersionMismatch(config)
                 THEN hs' = [Respond(h, "version mismatch!") EXCEPT
                                !.pending = FailedState("version mismatch!"),
                                !.spc = "send"]
                 ELSE hs' = [h EXCEPT !.spc = "runTestS"]
       \/ /\ hs.c2s = <<>> /\ (hs.cclosed \/ hs.broken)
          /\ hs' = [Respond(hs, "EOF") EXCEPT !.pending = FailedState("EOF"),
                                               !.spc = "send"]
    /\ UNCHANGED <<uringVars, dg, srv, pm, dec>>

\* part_004, lines 232-252: the config is decoded and answered
handleConnection_handshake ==
    /\ hs.spc = "Decode"
    /\ \/ /\ hs.c2s # <<>>
          /\ LET config == DecodeConfig(Head(hs.c2s))
                 h == [hs EXCEPT !.c2s = Tail(@), !.config = config]
             IN  IF VersionMismatch(config)
                 THEN hs' = [Respond(h, "version mismatch!") EXCEPT
                                !.pending = FailedState("version mismatch!"),
                                !.spc = "send"]
                 ELSE hs' = [Respond(h, "") EXCEPT !.spc = "runTestS"]
       \/ /\ hs.c2s = <<>> /\ (hs.cclosed \/ hs.broken)
          /\ hs' = [Respond(hs, "EOF") EXCEPT !.pending = FailedState("EOF"),
                                               !.spc = "send"]
    /\ UNCHANGED <<uringVars, dg, srv, pm, dec>>

\* part_004, lines 310-313: the result of the whole test after the loop,
\* with totalSum as the rounds of the loop left it
runTestS_results(h, t) ==
    AppendResult(h.results, h.totalSum, t, TRUE)

\* part_004, lines 266-315: one round of the loop.  A failed conn.Write
\* ends the test with an error.  A written block takes dt ticks (startTime
\* is the time after the first write) and is counted; a segment is closed
\* when more than an increment has passed since lastCalculated; the loop
\* ends when more than config.TestDuration has passed since startTime
runTestS ==
    /\ hs.spc = "runTestS"
    /\ \/ /\ hs.broken \/ hs.cclosed
          /\ hs' = [hs EXCEPT
                      !.pending = FailedState("server: connection closed unexpectedly"),
                      !.spc = "send"]
       \/ /\ ~hs.broken
          /\ \E dt \in 0 .. MaxWriteTicks :
               /\ dt = 0 => hs.blocks < MaxBlocks
               /\ LET t == IF hs.blocks = 0 THEN 0 ELSE hs.t + dt
                      sum == hs.sum + 1
                      flush == t > hs.lastCalculated + Increment
                      h == IF flush
                           THEN [hs EXCEPT
                                   !.results = AppendResult(@, sum,
                                                  t - hs.lastCalculated, FALSE),
                                   !.lastCalculated = @ + Increment,
                                   !.totalSum = @ + sum,
                                   !.sum = 0]
                           ELSE [hs EXCEPT !.sum = sum]
                      g == [h EXCEPT !.s2c = Append(@, Block), !.blocks = @ + 1,
                                     !.t = t]
                  IN  IF t > hs.config.TestDuration
                      THEN hs' = [g EXCEPT
                                    !.results = runTestS_results(g, t),
                                    !.pending = [sent |-> FALSE, failed |-> FALSE,
                                                 err |-> "nil",
                                                 results |->
                                                    runTestS_results(g, t)],
                                    !.spc = "send"]
                      ELSE hs' = g
    /\ UNCHANGED <<uringVars, dg, srv, pm, dec>>

\* part_004, lines 241, 247, 256, 259: the test state is sent, and the
\* deferred conn.Close() of line 231 runs
handleConnection_testState ==
    /\ hs.spc = "send"
    /\ hs' = [hs EXCEPT !.state = [hs.pending EXCEPT !.sent = TRUE],
                        !.sclosed = TRUE, !.spc = "done"]
    /\ UNCHANGED <<uringVars, dg, srv, pm, dec>>

\* the connection breaks: from now on reads and writes on it fail
Conn_break ==
    /\ hs.pc = "on" /\ ~hs.broken
    /\ hs.cpc \notin {"Dial", "returned"}
    /\ hs' = [hs EXCEPT !.broken = TRUE]
    /\ UNCHANGED <<uringVars, dg, srv, pm, dec>>

NextHandshake ==
    \/ RunClient_Dial \/ RunClient_Encode \/ RunClient_Decode \/ runTestC
    \/ handleConnection_handshake \/ runTestS \/ handleConnection_testState
    \/ Conn_break

SpecHandshake == InitHandshake /\ [][NextHandshake]_vars

(* C21: when the client's config carries a version that is not the         *)
(* server's, every response the server sends has a non-empty Error, no     *)
(* block of test data is written, the state handleConnection reports is    *)
(* failed, and RunClient returns an error and no results.                  *)
C21_VersionMismatch ==
    (hs.pc = "on" /\ hs.cver # version) =>
        /\ hs.response.sent => hs.response.Error # ""
        /\ hs.blocks = 0 /\ \A i \in 1 .. Len(hs.s2c) : ~IsBlock(hs.s2c[i])
        /\ hs.state.sent => hs.state.failed /\ hs.state.err # "nil"
        /\ hs.cpc = "returned" => hs.cres.err # "nil" /\ hs.cres.results = <<>>

\* the server has decoded a config of another version, answered and
\* reported, and RunClient has returned the server's error
C21_Witness ==
    /\ hs.pc = "on" /\ hs.cver # version
    /\ hs.config.Version = hs.cver
    /\ hs.response.sent /\ hs.state.sent /\ hs.state.failed
    /\ hs.spc = "done" /\ hs.cpc = "returned"
    /\ hs.cres.err = hs.response.Error /\ hs.cres.err = "version mismatch!"

\* the blocks of test data among the messages q
BlocksIn(q) == Cardinality({i \in 1 .. Len(q) : IsBlock(q[i])})

(* C32: the server writes a block of test data only after it has decoded   *)
(* the client's config and sent a response with an empty Error; the client *)
(* takes test data from the connection only after it has sent its config, *)
(* and only behind a response with an empty Error.                         *)
C32_HandshakeBeforeData ==
    [][hs.pc = "on" =>
          /\ (hs'.blocks > hs.blocks \/ BlocksIn(hs'.s2c) > BlocksIn(hs.s2c)) =>
                /\ hs.spc = "runTestS"
                /\ hs.cpc \notin {"Dial", "Encode"}
                /\ hs.c2s = <<>>
                /\ hs.config = [Version |-> hs.cver, TestDuration |-> hs.duration]
                /\ hs.response = [sent |-> TRUE, Error |-> ""]
          /\ (hs'.got > hs.got \/ BlocksIn(hs'.s2c) < BlocksIn(hs.s2c)) =>
                /\ hs.cpc \in {"Decode", "runTestC"}
                /\ hs.response = [sent |-> TRUE, Error |-> ""]
                /\ hs.cpc = "Decode" =>
                      /\ ~IsBlock(Head(hs.s2c))
                      /\ DecodeResponse(Head(hs.s2c)).Error = ""
                      /\ hs'.cpc = "runTestC"]_vars

\* test data has been written by the server and read by the client
C32_Witness ==
    /\ hs.pc = "on" /\ hs.blocks > 0 /\ hs.got > 0
    /\ hs.cpc = "runTestC" /\ hs.response = [sent |-> TRUE, Error |-> ""]

\* in results only the last element may have Total = true, and its Bytes is
\* bytes (counted in blocks)
TotalIsLast(results, bytes) ==
    \A i \in 1 .. Len(results) :
        results[i].Total => i = Len(results) /\ results[i].Bytes = bytes

(* C33: the results that runTestS reports and the results that runTestC    *)
(* returns hold at most one Result with Total = true, it is the last one,  *)
(* and its Bytes is all that was written (server) or read (client) in the *)
(* test.                                                                   *)
C33_TotalCountsTheWholeTest ==
    hs.pc = "on" =>
        /\ (hs.state.sent /\ ~hs.state.failed) =>
               TotalIsLast(hs.state.results, hs.blocks)
        /\ (hs.cpc = "returned" /\ hs.cres.err = "nil") =>
               TotalIsLast(hs.cres.results, hs.got)

\* the handshake and the test with a fair scheduler: the client and the
\* handler take their steps; only the breaking of the connection is left
\* to chance
SpecHandshakeFair ==
    /\ InitHandshake /\ [][NextHandshake]_vars
    /\ WF_vars(RunClient_Encode) /\ WF_vars(RunClient_Decode) /\ WF_vars(runTestC)
    /\ WF_vars(handleConnection_handshake) /\ WF_vars(runTestS)
    /\ WF_vars(handleConnection_testState)

(* C35: once the server has accepted the config, the download comes to    *)
(* its normal end unless the connection breaks: the server streams its     *)
(* blocks and closes, and RunClient returns a nil error; a return of       *)
(* RunClient with an error after the accepted config happens only on a     *)
(* broken connection, never on the end of the data stream.                 *)
C35_DownloadEndsNormally ==
    /\ (hs.pc = "on" /\ hs.response = [sent |-> TRUE, Error |-> ""])
          ~> (hs.broken \/ (hs.cpc = "returned" /\ hs.cres.err = "nil"))
    /\ [](( /\ hs.pc = "on" /\ hs.response = [sent |-> TRUE, Error |-> ""]
            /\ hs.cpc = "returned" /\ ~hs.broken) => hs.cres.err = "nil")

\* the server has run its test to the end and closed, the client has read
\* the blocks to the end of the stream and returned results and no error
C35_Witness ==
    /\ hs.pc = "on" /\ ~hs.broken
    /\ hs.state.sent /\ ~hs.state.failed /\ hs.sclosed
    /\ hs.cpc = "returned" /\ hs.cres.err = "nil"
    /\ hs.got > 0 /\ hs.s2c = <<>>
    /\ hs.cres.results # <<>> /\ hs.cres.results[Len(hs.cres.results)].Total

\* the client's half of C33
C33_ClientTotal ==
    (hs.pc = "on" /\ hs.cpc = "returned" /\ hs.cres.err = "nil") =>
        TotalIsLast(hs.cres.results, hs.got)

---------------------------------------------------------------------------
(* The UPnP port mapping of package portmapper (upnp.go, lines 80-241):    *)
(* one call of Client.getUPnPPortMapping against a gateway that answers    *)
(* each request with success or failure.  pm holds the Client's mapping    *)
(* and localPort, the call's arguments and locals, and what it returned.   *)

\* the connection types of goupnp's internetgateway2 (lines 125-146)
ClientTypes == {"WANIPConnection1", "WANIPConnection2", "WANPPPConnection1"}

\* prevPort: no earlier port, or the port of an earlier mapping
PrevPorts == {0, 7000}

\* the external ports the gateway may map
GatewayPorts == {7000, 7001}

\* what the gateway may give as its external address
ExternalIPStrings == {"203.0.113.7", "unknown"}

\* netaddr.IPPort{}
ZeroIPPort == [ip |-> <<>>, port |-> 0]

\* netaddr.ParseIP (line 227)
ParseIP(str) ==
    IF str = "203.0.113.7"
    THEN [ip |-> <<203, 0, 113, 7>>, err |-> "nil"]
    ELSE [ip |-> <<>>, err |-> "unable to parse IP"]

\* netaddr.IPPortFrom (line 232)
IPPortFrom(ip, port) == [ip |-> ip, port |-> port]

NoMapping == [kind |-> "nil", gw |-> <<>>, external |-> ZeroIPPort,
              internal |-> ZeroIPPort, client |-> "nil"]

\* the mappings c.mapping may hold when the call starts: none, one of
\* another protocol, a nil *upnpMapping, or a upnpMapping with its client
OldMappings ==
    {NoMapping, [NoMapping EXCEPT !.kind = "pmp"],
     [NoMapping EXCEPT !.kind = "upnp-nil"]}
    \cup {[kind |-> "upnp", gw |-> <<192, 168, 1, 1>>,
           external |-> IPPortFrom(<<203, 0, 113, 7>>, 7000),
           internal |-> IPPortFrom(<<192, 168, 1, 2>>, 41641),
           client |-> cl] : cl \in ClientTypes \cup {"nil"}}

\* the reply of the gateway to an AddAnyPortMapping or AddPortMapping
\* request: an error, or the external port it has mapped
GatewayReplies(upnp, externalPort) ==
    {[err |-> "refused", port |-> 0]}
    \cup {[err |-> "nil", port |-> p] :
            p \in IF upnp = "WANIPConnection2" \/ externalPort = 0
                  THEN GatewayPorts
                  ELSE {externalPort}}

\* lines 83-116: a WANIPConnection2 client returns the port of the reply;
\* with the other clients AddPortMapping is called and internalPort returned
addAnyPortMapping(upnp, externalPort, internalPort, reply) ==
    IF upnp = "WANIPConnection2"
    THEN [newPort |-> reply.port, err |-> reply.err]
    ELSE [newPort |-> internalPort, err |-> reply.err]

InitPortmap ==
    /\ kind = "none" /\ useIOURing = TRUE /\ hasIOURing = TRUE /\ ctor = "pending"
    /\ ring = [r \in RingNames |-> NoRing]
    /\ reqs = [p \in Pools |-> [i \in Slots(p) |-> NullReq]]
    /\ u = ZeroUDPConn /\ f = ZeroFile
    /\ sendReqC = <<>> /\ writeReqC = <<>>
    /\ handles = [conn |-> 0, file |-> 0, dup |-> FALSE, failed |-> FALSE]
    /\ pc = [t \in Threads |-> "idle"]
    /\ loc = [t \in Threads |-> NoLocals]
    /\ ret = [t \in Threads |-> NoRet]
    /\ ncalls = 0 /\ crashed = "no"
    /\ dg = DgIdle /\ srv = SrvIdle /\ hs = HsIdle /\ dec = DecIdle
    /\ \E old \in OldMappings, localPort \in {0, 41641}, prevPort \in PrevPorts,
          recentProbe \in BOOLEAN, haveRecentUPnP \in BOOLEAN :
          pm = [pc |-> "probe",
                mapping |-> old,
                localPort |-> localPort,
                recentProbe |-> recentProbe,
                haveRecentUPnP |-> haveRecentUPnP,
                gw |-> <<192, 168, 1, 1>>,
                internal |-> IPPortFrom(<<192, 168, 1, 2>>, 41641),
                prevPort |-> prevPort,
                client |-> "nil",
                newPort |-> 0,
                mapped |-> 0,
                externalIP |-> <<>>,
                ret |-> [external |-> ZeroIPPort, err |-> "none"]]

\* return netaddr.IPPort{}, NoMappingError{ErrNoPortMappingServices}
NoMappingError(m) ==
    [m EXCEPT !.pc = "returned",
              !.ret = [external |-> ZeroIPPort,
                       err |-> "no port mapping services were found"]]

\* lines 183-187
getUPnPPortMapping_probe ==
    /\ pm.pc = "probe"
    /\ IF pm.recentProbe /\ ~pm.haveRecentUPnP
       THEN pm' = NoMappingError(pm)
       ELSE pm' = [pm EXCEPT !.pc = "client"]
    /\ UNCHANGED <<uringVars, dg, srv, hs, dec>>

\* lines 193-207: the client of the old upnpMapping, or the one that
\* getUPnPClient finds: an error, no client, or a client of one type
getUPnPPortMapping_client ==
    /\ pm.pc = "client"
    /\ IF pm.mapping.kind = "upnp"
       THEN IF pm.mapping.client = "nil"
            THEN pm' = NoMappingError(pm)
            ELSE pm' = [pm EXCEPT !.client = pm.mapping.client, !.pc = "add"]
       ELSE \E found \in ClientTypes \cup {"nil", "error"} :
              IF found \in ClientTypes
              THEN pm' = [pm EXCEPT !.client = found, !.pc = "add"]
              ELSE pm' = NoMappingError(pm)
    /\ UNCHANGED <<uringVars, dg, srv, hs, dec>>

\* lines 209-220 storing the new port in the Client at once
getUPnPPortMapping_add_stores ==
    /\ pm.pc = "add"
    /\ \E reply \in GatewayReplies(pm.client, pm.prevPort) :
          LET r == addAnyPortMapping(pm.client, pm.prevPort, pm.internal.port, reply)
          IN  IF r.err # "nil"
              THEN pm' = [NoMappingError(pm) EXCEPT !.localPort = r.newPort]
              ELSE pm' = [pm EXCEPT !.newPort = r.newPort, !.mapped = reply.port,
                                    !.localPort = r.newPort,
                                    !.pc = "externalIP"]
    /\ UNCHANGED <<uringVars, dg, srv, hs, dec>>

\* lines 209-220
getUPnPPortMapping_add ==
    /\ pm.pc = "add"
    /\ \E reply \in GatewayReplies(pm.client, pm.prevPort) :
          LET r == addAnyPortMapping(pm.client, pm.prevPort, pm.internal.port, reply)
          IN  IF r.err # "nil"
              THEN pm' = NoMappingError(pm)
              ELSE pm' = [pm EXCEPT !.newPort = r.newPort, !.mapped = reply.port,
                                    !.pc = "externalIP"]
    /\ UNCHANGED <<uringVars, dg, srv, hs, dec>>

\* lines 222-230
getUPnPPortMapping_externalIP ==
    /\ pm.pc = "externalIP"
    /\ \/ pm' = NoMappingError(pm)
       \/ \E extIP \in ExternalIPStrings :
             LET parsed == ParseIP(extIP)
             IN  IF parsed.err # "nil"
                 THEN pm' = NoMappingError(pm)
                 ELSE pm' = [pm EXCEPT !.externalIP = parsed.ip, !.pc = "store"]
    /\ UNCHANGED <<uringVars, dg, srv, hs, dec>>

\* lines 232-240
getUPnPPortMapping_store ==
    /\ pm.pc = "store"
    /\ LET upnp == [kind |-> "upnp", gw |-> pm.gw,
                    external |-> IPPortFrom(pm.externalIP, pm.newPort),
                    internal |-> pm.internal,
                    client |-> pm.client]
       IN  pm' = [pm EXCEPT !.mapping = upnp,
                            !.localPort = pm.newPort,
                            !.ret = [external |-> upnp.external, err |-> "nil"],
                            !.pc = "returned"]
    /\ UNCHANGED <<uringVars, dg, srv, hs, dec>>

NextPortmap ==
    \/ getUPnPPortMapping_probe
    \/ getUPnPPortMapping_client
    \/ getUPnPPortMapping_add
    \/ getUPnPPortMapping_externalIP
    \/ getUPnPPortMapping_store

SpecPortmap == InitPortmap /\ [][NextPortmap]_vars

(* C22: a step of getUPnPPortMapping changes the Client's mapping or       *)
(* localPort only if it is the successful return; a return with a nil      *)
(* error gives the parsed external IP with the new port, and has just      *)
(* stored the new mapping and the new port; every other return gives the   *)
(* zero IPPort with a non-nil error and has left both as they were.        *)
C22_MappingOnlyOnSuccess ==
    [][pm.pc # "off" =>
         /\ (pm'.mapping # pm.mapping \/ pm'.localPort # pm.localPort) =>
               pm'.pc = "returned" /\ pm'.ret.err = "nil"
         /\ (pm'.pc = "returned" /\ pm.pc # "returned") =>
               IF pm'.ret.err = "nil"
               THEN /\ pm'.ret.external # ZeroIPPort
                    /\ pm'.ret.external = IPPortFrom(pm.externalIP, pm.newPort)
                    /\ pm.externalIP # <<>>
                    /\ pm'.mapping = [kind |-> "upnp", gw |-> pm.gw,
                                      external |-> pm'.ret.external,
                                      internal |-> pm.internal,
                                      client |-> pm.client]
                    /\ pm'.localPort = pm.newPort
               ELSE /\ pm'.ret.err # "none"
                    /\ pm'.ret.external = ZeroIPPort
                    /\ pm'.mapping = pm.mapping
                    /\ pm'.localPort = pm.localPort]_vars

\* the call has failed after the gateway had mapped a port, and the Client
\* still holds its mapping of another protocol
C22_Witness ==
    /\ pm.pc = "returned" /\ pm.ret.err \notin {"nil", "none"}
    /\ pm.ret.external = ZeroIPPort
    /\ pm.mapped # 0 /\ pm.mapping.kind = "pmp" /\ pm.localPort = 0

---------------------------------------------------------------------------
(* getUPnPClient (upnp.go, lines 121-171): three discovery tasks, one per  *)
(* connection type, run in an errgroup; pm holds what each has found, the  *)
(* order in which they finished and what the function returns.             *)

\* how a discovery task ends: with a client, with none, or with an error
\* (and then no client)
TaskOutcomes == {"client", "none", "error"}

InitDiscover ==
    /\ kind = "none" /\ useIOURing = TRUE /\ hasIOURing = TRUE /\ ctor = "pending"
    /\ ring = [r \in RingNames |-> NoRing]
    /\ reqs = [p \in Pools |-> [i \in Slots(p) |-> NullReq]]
    /\ u = ZeroUDPConn /\ f = ZeroFile
    /\ sendReqC = <<>> /\ writeReqC = <<>>
    /\ handles = [conn |-> 0, file |-> 0, dup |-> FALSE, failed |-> FALSE]
    /\ pc = [t \in Threads |-> "idle"]
    /\ loc = [t \in Threads |-> NoLocals]
    /\ ret = [t \in Threads |-> NoRet]
    /\ ncalls = 0 /\ crashed = "no"
    /\ dg = DgIdle /\ srv = SrvIdle /\ hs = HsIdle /\ dec = DecIdle
    /\ pm = [pc |-> "Wait",
             tasks |-> [ty \in ClientTypes |-> "running"],
             finished |-> <<>>,
             ret |-> [client |-> "nil", err |-> "none"]]

\* lines 127-146: the task of one connection type finishes; its function
\* stores the clients and the error and returns nil
Task(ty) ==
    /\ pm.pc = "Wait" /\ pm.tasks[ty] = "running"
    /\ \E o \in TaskOutcomes :
          pm' = [pm EXCEPT !.tasks[ty] = o, !.finished = Append(@, ty)]
    /\ UNCHANGED <<uringVars, dg, srv, hs, dec>>

\* lines 148-170: tasks.Wait() returns when the three tasks have finished,
\* with a nil error since every task returns nil; the switch takes the
\* first non-empty list in the order WANIPConnection2, WANIPConnection1,
\* WANPPPConnection1, and without a client the first error of errs
getUPnPClient ==
    /\ pm.pc = "Wait"
    /\ \A ty \in ClientTypes : pm.tasks[ty] # "running"
    /\ LET client ==
             IF pm.tasks["WANIPConnection2"] = "client" THEN "WANIPConnection2"
             ELSE IF pm.tasks["WANIPConnection1"] = "client" THEN "WANIPConnection1"
             ELSE IF pm.tasks["WANPPPConnection1"] = "client" THEN "WANPPPConnection1"
             ELSE "nil"
           err == IF client = "nil" /\ \E ty \in ClientTypes : pm.tasks[ty] = "error"
                  THEN "error" ELSE "nil"
       IN  pm' = [pm EXCEPT !.pc = "found", !.ret = [client |-> client, err |-> err]]
    /\ UNCHANGED <<uringVars, dg, srv, hs, dec>>

NextDiscover == (\E ty \in ClientTypes : Task(ty)) \/ getUPnPClient

SpecDiscover == InitDiscover /\ [][NextDiscover]_vars

\* the types whose discovery has found a client, in the order of finishing
FoundInOrder == SelectSeq(pm.finished, LAMBDA ty : pm.tasks[ty] = "client")

(* C36: the three discoveries run at the same time, and the client that    *)
(* getUPnPClient returns is of the type whose discovery was the first to   *)
(* finish with a client.                                                   *)
C36_FastestClientReturned ==
    pm.pc = "found" =>
        /\ Len(pm.finished) = Cardinality(ClientTypes)
        /\ IF FoundInOrder = <<>>
           THEN pm.ret.client = "nil"
           ELSE pm.ret.client = Head(FoundInOrder)


(* C37: when getUPnPPortMapping succeeds, the port it returns and stores   *)
(* in the mapping is the external port that the gateway has mapped, with   *)
(* a WANIPConnection2 client and with the clients that use AddPortMapping. *)
C37_ReturnsMappedPort ==
    (pm.pc = "returned" /\ pm.ret.err = "nil") =>
        /\ pm.newPort = pm.mapped
        /\ pm.ret.external.port = pm.mapped
        /\ pm.mapping.external.port = pm.mapped

\* the WANIPConnection2 half of C37
C37_AddAnyPortMappingReturnsMappedPort ==
    (pm.pc = "returned" /\ pm.ret.err = "nil" /\ pm.client = "WANIPConnection2") =>
        /\ pm.ret.external.port = pm.mapped
        /\ pm.mapping.external.port = pm.mapped

---------------------------------------------------------------------------
(* netns control (upnp.go, lines 274-390): one call of control on a socket *)
(* c.  pm holds the environment (test case or not, root or not,            *)
(* TS_NETNS_BIND_IFC set or not, the cached answer of useSocketMark) and   *)
(* what the call has done to the socket.                                   *)

\* socketMarkWorksOnce: not yet run, or run with v true or false
OnceStates == {"new", "true", "false"}

\* the outcome of a setsockopt call
SockoptOutcomes == {"ok", "err"}

InitControl ==
    /\ kind = "none" /\ useIOURing = TRUE /\ hasIOURing = TRUE /\ ctor = "pending"
    /\ ring = [r \in RingNames |-> NoRing]
    /\ reqs = [p \in Pools |-> [i \in Slots(p) |-> NullReq]]
    /\ u = ZeroUDPConn /\ f = ZeroFile
    /\ sendReqC = <<>> /\ writeReqC = <<>>
    /\ handles = [conn |-> 0, file |-> 0, dup |-> FALSE, failed |-> FALSE]
    /\ pc = [t \in Threads |-> "idle"]
    /\ loc = [t \in Threads |-> NoLocals]
    /\ ret = [t \in Threads |-> NoRet]
    /\ ncalls = 0 /\ crashed = "no"
    /\ dg = DgIdle /\ srv = SrvIdle /\ hs = HsIdle /\ dec = DecIdle
    /\ \E test \in BOOLEAN, root \in BOOLEAN, ifc \in BOOLEAN, once \in OnceStates :
          pm = [pc |-> "control",
                test |-> test, root |-> root, specificInterface |-> ifc,
                once |-> once,
                called |-> FALSE,
                probe |-> "no", mark |-> "no", bind |-> "no",
                sockErr |-> "nil", ret |-> "none"]

\* ignoreErrors looking at the environment type only
ignoreErrors_testonly(m) == m.test

\* lines 321-335
ignoreErrors(m) == m.test \/ ~m.root

\* lines 339-340 and 352-354: c.Control runs the function on the socket, or
\* fails without running it, and control returns that error wrapped
control ==
    /\ pm.pc = "control"
    /\ \/ pm' = [pm EXCEPT !.pc = "returned", !.ret = "RawConn.Control"]
       \/ pm' = [pm EXCEPT !.pc = "func", !.called = TRUE]
    /\ UNCHANGED <<uringVars, dg, srv, hs, dec>>

\* lines 341-351, up to the choice of the socket option
control_func ==
    /\ pm.pc = "func"
    /\ IF pm.test
       THEN pm' = [pm EXCEPT !.sockErr = "file does not exist", !.pc = "check"]
       ELSE pm' = [pm EXCEPT !.pc = "useSocketMark"]
    /\ UNCHANGED <<uringVars, dg, srv, hs, dec>>

\* lines 309-315 and 349-352: the first call runs `ip rule` and, if that
\* works, socketMarkWorks, which tries SO_MARK on a socket of its own; the
\* answer is kept, and with it and specificInterface the option is chosen
useSocketMark ==
    /\ pm.pc = "useSocketMark"
    /\ \E ipRuleWorks \in BOOLEAN, probe \in {"no"} \cup SockoptOutcomes :
          LET v == IF pm.once = "new"
                   THEN ipRuleWorks /\ probe # "err"
                   ELSE pm.once = "true"
              m == IF pm.once = "new"
                   THEN [pm EXCEPT !.once = IF v THEN "true" ELSE "false",
                                   !.probe = IF ipRuleWorks THEN probe ELSE "no"]
                   ELSE pm
          IN  pm' = [m EXCEPT !.pc = IF v /\ ~pm.specificInterface
                                     THEN "setBypassMark" ELSE "bindToDevice"]
    /\ UNCHANGED <<uringVars, dg, srv, hs, dec>>

\* lines 365-370
setBypassMark ==
    /\ pm.pc = "setBypassMark"
    /\ \E o \in SockoptOutcomes :
          pm' = [pm EXCEPT !.mark = o,
                           !.sockErr = IF o = "ok" THEN "nil"
                                       ELSE "setting SO_MARK bypass",
                           !.pc = "check"]
    /\ UNCHANGED <<uringVars, dg, srv, hs, dec>>

\* lines 372-390
bindToDevice ==
    /\ pm.pc = "bindToDevice"
    /\ \E o \in SockoptOutcomes :
          pm' = [pm EXCEPT !.bind = o,
                           !.sockErr = IF o = "ok" THEN "nil"
                                       ELSE "setting SO_BINDTODEVICE",
                           !.pc = "check"]
    /\ UNCHANGED <<uringVars, dg, srv, hs, dec>>

\* lines 355-359
control_return ==
    /\ pm.pc = "check"
    /\ pm' = [pm EXCEPT !.pc = "returned",
                        !.ret = IF pm.sockErr # "nil" /\ ignoreErrors(pm)
                                THEN "nil" ELSE pm.sockErr]
    /\ UNCHANGED <<uringVars, dg, srv, hs, dec>>

NextControl ==
    \/ control \/ control_func \/ useSocketMark
    \/ setBypassMark \/ bindToDevice \/ control_return

SpecControl == InitControl /\ [][NextControl]_vars

\* the errors of the socket options
SockoptErrors ==
    {"file does not exist", "setting SO_MARK bypass", "setting SO_BINDTODEVICE"}

(* C38, as stated: control returns a socket-option error only to root      *)
(* outside a test environment; in a test environment it applies neither    *)
(* option and returns nil; with TS_NETNS_BIND_IFC set it uses              *)
(* SO_BINDTODEVICE and never SO_MARK.                                      *)
C38_Control ==
    pm.pc = "returned" =>
        /\ pm.ret \in SockoptErrors => pm.root /\ ~pm.test
        /\ pm.test => pm.mark = "no" /\ pm.bind = "no" /\ pm.ret = "nil"
        /\ pm.specificInterface => pm.bind # "no" /\ pm.mark = "no"

(* C38, amended: control returns a socket-option error only to root        *)
(* outside a test environment; in a test environment it applies neither    *)
(* option to the socket and returns nil when RawConn.Control has run its   *)
(* function; with TS_NETNS_BIND_IFC set it never uses SO_MARK on the       *)
(* socket, and uses SO_BINDTODEVICE when it is outside a test environment  *)
(* and RawConn.Control has run its function.                               *)
C38_ControlAmended ==
    pm.pc = "returned" =>
        /\ pm.ret \in SockoptErrors => pm.root /\ ~pm.test
        /\ pm.test => /\ pm.mark = "no" /\ pm.bind = "no"
                      /\ pm.called => pm.ret = "nil"
                      /\ ~pm.called => pm.ret = "RawConn.Control"
        /\ pm.specificInterface =>
              /\ pm.mark = "no"
              /\ (~pm.test /\ pm.called) => pm.bind # "no"

\* root outside a test environment gets the error of SO_BINDTODEVICE, used
\* because TS_NETNS_BIND_IFC is set
C38_Witness ==
    /\ pm.pc = "returned"
    /\ pm.root /\ ~pm.test /\ pm.specificInterface
    /\ pm.bind = "err" /\ pm.mark = "no" /\ pm.ret = "setting SO_BINDTODEVICE"

=============================================================================
